---- MODULE Spec2Model ----
(***************************************************************************)
(* Model of the map subsystems and the line parser of nrsc5-dui.py.        *)
(*                                                                         *)
(* Timestamps are unix times of broadcast tiles and overlays, hence        *)
(* positive; 0 is the value the code stores for "empty".                   *)
(* A handler that raises ends the producer thread (play() has no handler); *)
(* the variable raised records that, and the arrivals explored after it    *)
(* belong to the session the user starts next: mapData outlives a session. *)
(***************************************************************************)
EXTENDS Integers, Sequences, FiniteSets, TLC

\* ---- bounds of the model -------------------------------------------------
MaxTs == 2          \* tile and overlay timestamps are 1..MaxTs
MaxUpsets == 1      \* tile arrivals off the nominal run (see Nominal)
MaxWxEvents == 4    \* weather overlay and metadata arrivals
MaxLines == 4       \* declaration and port lines read

\* ---- program constants ---------------------------------------------------
GridSize == 3
EmptyTs == 0

Rows == 0..(GridSize - 1)
Cells == Rows \X Rows
Times == 1..MaxTs

VARIABLES
    mapTiles,          \* mapData["mapTiles"][x][y]
    mapComplete,       \* mapData["mapComplete"]
    tileFiles,         \* cells whose TrafficMap_<x>_<y>.png exists in mapDir
    trafficMapWrites,  \* number of saves of TrafficMap.png so far
    aasFiles,          \* raw files present in the intake directory aasDir
    raised,            \* the last handler call raised out of parseFeedback
    outcome,           \* the path the last handler call took
    carouselTs,        \* timestamp of the map the broadcaster is sending
    upsets,            \* tile arrivals off the nominal run so far
    weatherID,         \* mapData["weatherID"]
    weatherPos,        \* mapData["weatherPos"]
    weatherTime,       \* mapData["weatherTime"]
    weatherNow,        \* mapData["weatherNow"]
    weatherMaps,       \* self.weatherMaps
    wxMapFiles,        \* the WeatherMap_<id>_<ts>.png files in mapDir
    baseMaps,          \* ids whose BaseMap_<id>.png exists in mapDir
    wxMapWrites,       \* number of saves of a WeatherMap_<id>_<ts>.png so far
    baseMapWrites,     \* per id, number of saves of BaseMap_<id>.png so far
    mapFile,           \* the reference map self.mapFile exists
    now,               \* the clock read by proccessWeatherMaps
    wxEvents,          \* overlay and metadata arrivals so far
    streams,           \* self.streams: the ports recorded per audio slot
    numStreams,        \* self.numStreams: number of the slot last declared
    numServices,       \* self.numServices: data services declared
    lastType,          \* self.lastType: type of the last declaration
    streamInfo,        \* self.streamInfo
    stationLogos,      \* self.stationLogos[self.stationStr]
    streamNum,         \* self.streamNum: the tuned slot
    cbCoverIncl,       \* include-station-covers toggle
    cbCovers,          \* download-covers toggle
    lastDecl,          \* the most recent SIG Service line read
    lineCount,         \* declaration and port lines read so far
    playing,           \* self.playing
    lingering,         \* a player thread of a stopped session is still in
                       \* the loop of play()
    sessions,          \* tune sessions started so far
    syncStatus,        \* the state last given to set_synchronization
    lastXHDR,          \* self.lastXHDR
    lastLOT,           \* self.lastLOT
    xhdrChanged,       \* self.xhdrChanged
    poll,              \* the status update in progress: what it has read
    refresh,           \* the passes of proccessWeatherMaps in progress
    player,            \* self.nrsc5 and the loop of play()
    viewer             \* self.mapViewer, the NRSC5_Map object

trafficVars == <<mapTiles, mapComplete, tileFiles, trafficMapWrites>>
tileEnvVars == <<carouselTs, upsets>>
weatherVars == <<weatherID, weatherPos, weatherTime, weatherNow, weatherMaps,
                 wxMapFiles, baseMaps, wxMapWrites, baseMapWrites>>
wxEnvVars == <<mapFile, now, wxEvents>>
portVars == <<streams, numStreams, numServices, lastType>>
stationVars == <<streams, numStreams, numServices, lastType, streamInfo,
                 stationLogos>>
settingVars == <<streamNum, cbCoverIncl, cbCovers>>
lineEnvVars == <<lastDecl, lineCount>>
sessionVars == <<playing, lingering, sessions>>
statusVars == <<syncStatus, lastXHDR, lastLOT, xhdrChanged>>
threadVars == <<poll, refresh, player, viewer>>

vars == <<mapTiles, mapComplete, tileFiles, trafficMapWrites, aasFiles,
          raised, outcome, carouselTs, upsets, weatherID, weatherPos,
          weatherTime, weatherNow, weatherMaps, wxMapFiles, baseMaps,
          wxMapWrites, baseMapWrites, mapFile, now, wxEvents, streams, numStreams,
          numServices, lastType, streamInfo, stationLogos, streamNum,
          cbCoverIncl, cbCovers, lastDecl, lineCount, playing, lingering,
          sessions, syncStatus, lastXHDR, lastLOT, xhdrChanged, poll, refresh,
          player, viewer>>

\* ---- traffic tile assembler ---------------------------------------------
\* the raw tile <lot>_TMT_..._<x+1>_<y+1>_<date>_<hex>.png, by its parsed fields
TileName(x, y, ts) == [kind |-> "TMT", x |-> x, y |-> y, ts |-> ts]

checkTiles_8of9(tiles, t) == \A c \in Cells \ {<<GridSize - 1, GridSize - 1>>} : tiles[c] = t

\* checkTiles(t): every cell of the grid holds t
checkTiles(tiles, t) == \A c \in Cells : tiles[c] = t

\* The stitch loop visits the cells row by row (i, then j), opens each cell
\* file and deletes it; the first missing file raises, so the files of the
\* cells after it stay.
CellIndex(c) == c[1] * GridSize + c[2]

FirstMissing(files) ==
    IF Cells \subseteq files THEN GridSize * GridSize
    ELSE CHOOSE n \in 0..(GridSize * GridSize - 1) :
           /\ \E c \in Cells \ files : CellIndex(c) = n
           /\ \A c \in Cells \ files : CellIndex(c) >= n

StitchLeaves_keep(files) == files

StitchLeaves(files) == {c \in files : CellIndex(c) > FirstMissing(files)}

finishTrafficMap_nodup(x, y, ts, present) ==
    LET f        == TileName(x, y, ts)
        src      == present \/ f \in aasFiles
        tiles1   == [mapTiles EXCEPT ![<<x, y>>] = IF src THEN ts ELSE EmptyTs]
        files1   == IF src THEN tileFiles \cup {<<x, y>>}
                           ELSE tileFiles \ {<<x, y>>}
        complete == checkTiles(tiles1, ts)
        stitchOk == Cells \subseteq files1
    IN  /\ mapTiles' = tiles1
        /\ aasFiles' = aasFiles \ {f}
        /\ mapComplete' = complete
        /\ tileFiles' = IF complete THEN StitchLeaves(files1) ELSE files1
        /\ trafficMapWrites' = IF complete /\ stitchOk
                               THEN trafficMapWrites + 1
                               ELSE trafficMapWrites
        /\ raised' = (complete /\ ~stitchOk)
        /\ outcome' = IF complete
                      THEN (IF stitchOk THEN "stitched" ELSE "stitchRaised")
                      ELSE IF src THEN "tileStored" ELSE "tileMoveFailed"

\* finishTrafficMap(fileName, ts, t, x, y); present: nrsc5 has written the
\* raw tile to aasDir before announcing it
finishTrafficMap(x, y, ts, present) ==
    LET f        == TileName(x, y, ts)
        src      == present \/ f \in aasFiles
        tiles1   == [mapTiles EXCEPT ![<<x, y>>] = IF src THEN ts ELSE EmptyTs]
        files1   == IF src THEN tileFiles \cup {<<x, y>>}
                           ELSE tileFiles \ {<<x, y>>}
        complete == checkTiles(tiles1, ts)
        stitchOk == Cells \subseteq files1
    IN  IF mapTiles[<<x, y>>] = ts
        THEN /\ aasFiles' = aasFiles \ {f}
             /\ outcome' = IF src THEN "tileDuplicate" ELSE "tileDuplicateGone"
             /\ raised' = FALSE
             /\ UNCHANGED trafficVars
        ELSE /\ mapTiles' = tiles1
             /\ aasFiles' = aasFiles \ {f}
             /\ mapComplete' = complete
             /\ tileFiles' = IF complete THEN StitchLeaves(files1) ELSE files1
             /\ trafficMapWrites' = IF complete /\ stitchOk
                                    THEN trafficMapWrites + 1
                                    ELSE trafficMapWrites
             /\ raised' = (complete /\ ~stitchOk)
             /\ outcome' = IF complete
                           THEN (IF stitchOk THEN "stitched" ELSE "stitchRaised")
                           ELSE IF src THEN "tileStored" ELSE "tileMoveFailed"

\* The nominal run is the carousel sending tiles of its current timestamp
\* whose file is in aasDir; any other arrival (another timestamp, a file
\* that is missing) is an upset, and the model bounds the upsets.
Nominal(ts, present) == ts = carouselTs /\ present

\* processTrafficMap(fileName): a tile announced by a LOT line
TileArrival ==
    \E x \in Rows, y \in Rows, ts \in Times, present \in BOOLEAN :
        /\ Nominal(ts, present) \/ upsets < MaxUpsets
        /\ finishTrafficMap(x, y, ts, present)
        /\ upsets' = IF Nominal(ts, present) THEN upsets ELSE upsets + 1
        /\ UNCHANGED <<carouselTs, weatherVars, wxEnvVars, stationVars, settingVars,
                       lineEnvVars, sessionVars, statusVars,
                       threadVars>>

\* ---- weather compositor --------------------------------------------------
IDs == {"A", "B"}         \* location ids (alphanumeric, as the cache regex wants)
NoID == ""
Boxes == {1, 2}           \* bounding boxes [lat1, lon1, lat2, lon2]
DefaultPos == 0           \* the initial weatherPos [0,0,0,0]
NoMap == [id |-> NoID, ts |-> EmptyTs]      \* weatherNow = ""
HalfDay == 1              \* 60*60*12 seconds; the clock counts half days
MaxNow == MaxTs + HalfDay + 1

\* the raw overlay <lot>_DWRO_<id>_..._<date>_<time>_<hex>.png, by its fields
OverlayName(id, ts) == [kind |-> "DWRO", id |-> id, ts |-> ts]
\* the composite mapDir/WeatherMap_<id>_<ts>.png
WxMap(id, ts) == [id |-> id, ts |-> ts]

InSeq(f, list) == \E i \in 1..Len(list) : list[i] = f

\* files.sort(): the files appended in one pass have the same id, so their
\* names are ordered by the timestamp digits
RECURSIVE SortedByTs(_)
SortedByTs(S) ==
    IF S = {} THEN <<>>
    ELSE LET m == CHOOSE f \in S : \A g \in S : f.ts <= g.ts
         IN  <<m>> \o SortedByTs(S \ {m})

TooOld(f, clock) == clock - f.ts > HalfDay

PrunedFiles_keep(files, clock) == files

\* proccessWeatherMaps(): the files left on disk and the list afterwards
PrunedFiles(files, clock) == {f \in files : ~TooOld(f, clock)}

RefreshedList(files, list, id, clock) ==
    SelectSeq(list, LAMBDA f : ~(f \in files /\ TooOld(f, clock)))
    \o SortedByTs({f \in files : /\ ~TooOld(f, clock)
                                 /\ f.id = id
                                 /\ ~InSeq(f, list)})

\* makeBaseMap(id, pos): with the reference map present the base map is
\* cropped and saved only if it is not there yet.  Without it the code asks
\* Image.new for a blank image whose size is a pair of differences of the
\* float coordinates; Image.new takes integers only and raises, so the save
\* that follows is never reached.
BaseMapRaises == ~mapFile
BaseMapsAfter(id) ==
    IF mapFile THEN baseMaps \cup {id} ELSE baseMaps

BaseMapWritesAfter_always(id) ==
    IF mapFile
    THEN [baseMapWrites EXCEPT ![id] = @ + 1]
    ELSE baseMapWrites

\* mapImg.save(mapPath) is reached with the reference map present and
\* BaseMap_<id>.png not on disk
BaseMapWritesAfter(id) ==
    IF mapFile /\ id \notin baseMaps
    THEN [baseMapWrites EXCEPT ![id] = @ + 1]
    ELSE baseMapWrites

finishWeatherOverlay_nodup(f, ts, id, src) ==
    LET needBase == id \notin baseMaps
        bases1   == IF needBase THEN BaseMapsAfter(weatherID) ELSE baseMaps
        writes1  == IF needBase THEN BaseMapWritesAfter(weatherID)
                                ELSE baseMapWrites
        baseOk   == ~(needBase /\ BaseMapRaises) /\ id \in bases1
        ok       == baseOk /\ src
        files1   == wxMapFiles \cup {WxMap(id, ts)}
    IN  /\ aasFiles' = aasFiles \ {f}
        /\ raised' = FALSE
        /\ baseMaps' = bases1
        /\ baseMapWrites' = writes1
        /\ weatherTime' = IF ok THEN ts ELSE EmptyTs
        /\ wxMapWrites' = IF ok THEN wxMapWrites + 1 ELSE wxMapWrites
        /\ weatherNow' = IF ok THEN WxMap(id, ts) ELSE weatherNow
        /\ wxMapFiles' = IF ok THEN PrunedFiles(files1, now) ELSE wxMapFiles
        /\ weatherMaps' = IF ok
                          THEN RefreshedList(files1, weatherMaps, weatherID, now)
                          ELSE weatherMaps
        /\ outcome' = IF ok THEN "overlayComposited"
                      ELSE IF src THEN "overlayBaseFailed" ELSE "overlayMoveFailed"
        /\ UNCHANGED <<weatherID, weatherPos>>

\* finishWeatherOverlay(fileName, ts, t, id, False) for the raw overlay f,
\* src: the raw overlay is in aasDir
finishWeatherOverlay(f, ts, id, src) ==
    LET needBase == id \notin baseMaps
        bases1   == IF needBase THEN BaseMapsAfter(weatherID) ELSE baseMaps
        writes1  == IF needBase THEN BaseMapWritesAfter(weatherID)
                                ELSE baseMapWrites
        baseOk   == ~(needBase /\ BaseMapRaises) /\ id \in bases1
        ok       == baseOk /\ src
        files1   == wxMapFiles \cup {WxMap(id, ts)}
    IN  IF weatherTime = ts
        THEN /\ aasFiles' = aasFiles \ {f}
             /\ outcome' = "overlayDuplicate"
             /\ raised' = FALSE
             /\ UNCHANGED weatherVars
        ELSE /\ aasFiles' = aasFiles \ {f}
             /\ raised' = FALSE
             /\ baseMaps' = bases1
             /\ baseMapWrites' = writes1
             /\ weatherTime' = IF ok THEN ts ELSE EmptyTs
             /\ wxMapWrites' = IF ok THEN wxMapWrites + 1 ELSE wxMapWrites
             /\ weatherNow' = IF ok THEN WxMap(id, ts) ELSE weatherNow
             /\ wxMapFiles' = IF ok THEN PrunedFiles(files1, now) ELSE wxMapFiles
             /\ weatherMaps' = IF ok
                               THEN RefreshedList(files1, weatherMaps, weatherID, now)
                               ELSE weatherMaps
             /\ outcome' = IF ok THEN "overlayComposited"
                           ELSE IF src THEN "overlayBaseFailed" ELSE "overlayMoveFailed"
             /\ UNCHANGED <<weatherID, weatherPos>>

processWeatherOverlay_anyid(eid, ts, present) ==
    finishWeatherOverlay(OverlayName(eid, ts), ts, eid,
                         present \/ OverlayName(eid, ts) \in aasFiles)

\* processWeatherOverlay(fileName): eid is the id embedded in the file name
processWeatherOverlay(eid, ts, present) ==
    LET f   == OverlayName(eid, ts)
        src == present \/ f \in aasFiles
    IN  IF eid # weatherID
        THEN /\ aasFiles' = IF present THEN aasFiles \cup {f} ELSE aasFiles
             /\ outcome' = IF weatherID = NoID THEN "overlayBeforeMetadata"
                                               ELSE "overlayWrongId"
             /\ raised' = FALSE
             /\ UNCHANGED weatherVars
        ELSE finishWeatherOverlay(f, ts, weatherID, src)

\* proccessWeatherInfo(fileName): found is false when the file is missing or
\* the id or the coordinates are absent or malformed
proccessWeatherInfo(found, id, pos) ==
    IF found /\ (weatherID # id \/ weatherPos # pos)
    THEN /\ weatherID' = id
         /\ weatherPos' = pos
         /\ baseMaps' = BaseMapsAfter(id)
         /\ baseMapWrites' = BaseMapWritesAfter(id)
         /\ raised' = BaseMapRaises
         /\ weatherMaps' = IF BaseMapRaises THEN weatherMaps
                           ELSE RefreshedList(wxMapFiles, <<>>, id, now)
         /\ wxMapFiles' = IF BaseMapRaises THEN wxMapFiles
                          ELSE PrunedFiles(wxMapFiles, now)
         /\ outcome' = IF BaseMapRaises THEN "infoBaseMapRaised"
                                                 ELSE "infoChanged"
         /\ UNCHANGED <<weatherTime, weatherNow, wxMapWrites, aasFiles>>
    ELSE /\ outcome' = IF found THEN "infoSame" ELSE "infoSkipped"
         /\ raised' = FALSE
         /\ UNCHANGED <<weatherVars, aasFiles>>

\* The metadata file is text, a line per field.  The two fields the handler
\* reads, written well and written so that the handler's pattern fails:
IdLineOf == [id \in IDs |-> IF id = "A" THEN "DWR_Area_ID=\"A\""
                                        ELSE "DWR_Area_ID=\"B\""]
BadIdLine == "DWR_Area_ID=A"
CoordLineOf == [pos \in Boxes |->
                  IF pos = 1 THEN "Coordinates= (1.0,1.0) (3.0,3.0)"
                             ELSE "Coordinates= (2.0,2.0) (4.0,4.0)"]
BadCoordLine == "Coordinates= (1,1) (3,3)"
InfoLines == {IdLineOf[id] : id \in IDs} \cup {BadIdLine}
             \cup {CoordLineOf[pos] : pos \in Boxes} \cup {BadCoordLine}
MaxInfoLines == 2
InfoTexts == UNION {[1..n -> InfoLines] : n \in 0..MaxInfoLines}

NoPos == -1               \* weatherPos = None in the handler
HasIdKey(line) == line = BadIdLine \/ \E id \in IDs : line = IdLineOf[id]
HasCoordKey(line) == line = BadCoordLine \/ \E pos \in Boxes : line = CoordLineOf[pos]

\* the line loop of proccessWeatherInfo: a line with a key whose pattern
\* does not match makes m None, m.group raises, and the bare except ends
\* the reading with what was read so far
RECURSIVE readWeatherInfo(_, _, _)
readWeatherInfo(lines, id, pos) ==
    IF lines = <<>> THEN <<id, pos>>
    ELSE LET line == Head(lines)
         IN  IF HasIdKey(line)
             THEN IF \E i \in IDs : line = IdLineOf[i]
                  THEN readWeatherInfo(Tail(lines),
                                       CHOOSE i \in IDs : line = IdLineOf[i], pos)
                  ELSE <<id, pos>>
             ELSE IF HasCoordKey(line)
             THEN IF \E p \in Boxes : line = CoordLineOf[p]
                  THEN readWeatherInfo(Tail(lines), id,
                                       CHOOSE p \in Boxes : line = CoordLineOf[p])
                  ELSE <<id, pos>>
             ELSE readWeatherInfo(Tail(lines), id, pos)

proccessWeatherInfoFile_lenient(present, text) ==
    LET read == readWeatherInfo(text, NoID, NoPos)
    IN  IF ~present
        THEN /\ outcome' = "infoMissing"
             /\ raised' = FALSE
             /\ UNCHANGED <<weatherVars, aasFiles>>
        ELSE proccessWeatherInfo(read[1] # NoID \/ read[2] # NoPos,
                                 IF read[1] = NoID THEN "A" ELSE read[1],
                                 IF read[2] = NoPos THEN 1 ELSE read[2])

\* proccessWeatherInfo(fileName) on the file's text; present: the file is
\* in aasDir (a failing open is caught by the same except and leaves both
\* fields None)
proccessWeatherInfoFile(present, text) ==
    LET read == readWeatherInfo(text, NoID, NoPos)
    IN  IF ~present
        THEN /\ outcome' = "infoMissing"
             /\ raised' = FALSE
             /\ UNCHANGED <<weatherVars, aasFiles>>
        ELSE proccessWeatherInfo(read[1] # NoID /\ read[2] # NoPos,
                                 read[1], read[2])

\* a weather overlay announced by a LOT line with the DWRO_ marker
OverlayArrival ==
    \E eid \in IDs, ts \in Times, present \in BOOLEAN :
        /\ wxEvents < MaxWxEvents
        /\ wxEvents' = wxEvents + 1
        /\ processWeatherOverlay(eid, ts, present)
        /\ UNCHANGED <<trafficVars, tileEnvVars, mapFile, now, stationVars,
                       settingVars, lineEnvVars, sessionVars, statusVars,
                       threadVars>>

\* a weather metadata file announced by a LOT line with the DWRI_ marker
InfoArrival ==
    \E present \in BOOLEAN, text \in InfoTexts :
        /\ wxEvents < MaxWxEvents
        /\ wxEvents' = wxEvents + 1
        /\ proccessWeatherInfoFile(present, text)
        /\ UNCHANGED <<trafficVars, tileEnvVars, mapFile, now, stationVars,
                       settingVars, lineEnvVars, sessionVars, statusVars,
                       threadVars>>

\* time passes
Tick ==
    /\ now < MaxNow
    /\ now' = now + 1
    /\ UNCHANGED <<trafficVars, tileEnvVars, weatherVars, aasFiles, raised,
                   outcome, mapFile, wxEvents, stationVars, settingVars,
                   lineEnvVars, sessionVars, statusVars,
                       threadVars>>

InitWeather ==
    /\ weatherID = NoID
    /\ weatherPos = DefaultPos
    /\ weatherTime = EmptyTs
    /\ weatherNow = NoMap
    /\ weatherMaps = <<>>
    /\ wxMapFiles = {}
    /\ baseMaps = {}
    /\ wxMapWrites = 0
    /\ baseMapWrites = [id \in IDs |-> 0]

\* ---- port/service resolver and asset router -------------------------------
NumSlots == 8             \* self.streams and streamInfo["Streams"] have 8 entries
NumServices == 4          \* streamInfo["Services"] and ["SvcTypes"] have 4
CheckedSlots == 7         \* checkPorts: for i in range(0,7)
Slots == 0..(NumSlots - 1)
SvcIdx == 0..(NumServices - 1)
NoType == "0"             \* self.lastType = 0 after initStreamInfo
PyNone == "<None>"        \* the value a lookup function returns for no key
NoSlot == -1              \* checkPorts: result = -1

\* A port field is the text nrsc5 prints (port=%04X), a sequence of hex digits.
HexChars == <<"0", "1", "2", "3", "4", "5", "6", "7", "8", "9",
              "A", "B", "C", "D", "E", "F">>
DigitVal(ch) == (CHOOSE i \in 1..16 : HexChars[i] = ch) - 1
IsDec(ch) == DigitVal(ch) < 10

\* int(text, 16)
RECURSIVE HexVal(_)
HexVal(text) ==
    IF text = <<>> THEN 0
    ELSE 16 * HexVal(SubSeq(text, 1, Len(text) - 1)) + DigitVal(text[Len(text)])

\* the group ([0-9]+) of the patterns: the longest run of decimal digits at
\* the start of the field
RECURSIVE DecPrefix(_)
DecPrefix(text) ==
    IF text = <<>> \/ ~IsDec(Head(text)) THEN <<>>
    ELSE <<Head(text)>> \o DecPrefix(Tail(text))

\* regex[12] "... port=([0-9]+).* service_data_type=": the group may stop
\* inside the field, the rest is taken by ".*"
MatchesDataComponent(text) == DecPrefix(text) # <<>>
\* regex[7] "LOT file: port=([0-9]+) lot=": the group is the whole field
MatchesLot(text) == text # <<>> /\ DecPrefix(text) = text

\* the port the demodulator announced
PortOf(text) == HexVal(text)

\* self.ServiceDataType
ServiceDataType ==
    [k \in {0, 1, 3, 29, 31, 65, 66, 80, 256, 257, 258, 259, 260, 261, 262,
            263, 264, 265, 511} |->
        CASE k = 0 -> "Non_Specific" [] k = 1 -> "News" [] k = 3 -> "Sports"
          [] k = 29 -> "Weather" [] k = 31 -> "Emergency" [] k = 65 -> "Traffic"
          [] k = 66 -> "Image Maps" [] k = 80 -> "Text"
          [] k = 256 -> "Advertising" [] k = 257 -> "Financial"
          [] k = 258 -> "Stock Ticker" [] k = 259 -> "Navigation"
          [] k = 260 -> "Electronic Program Guide" [] k = 261 -> "Audio"
          [] k = 262 -> "Private Data Network"
          [] k = 263 -> "Service Maintenance"
          [] k = 264 -> "HD Radio System Services"
          [] k = 265 -> "Audio-Related Objects"
          [] k = 511 -> "Reserved for Special Tests"]

\* service_data_type_name(type): falls off the loop for an unknown code
service_data_type_name(type) ==
    IF type \in DOMAIN ServiceDataType THEN ServiceDataType[type] ELSE PyNone

MaxOf(S) == CHOOSE m \in S : \A n \in S : n <= m

\* checkPorts(port, type): the last slot among the checked ones that holds
\* port at position type
checkPorts(strs, port, type) ==
    LET hits == {i \in 0..(CheckedSlots - 1) :
                    Len(strs[i]) > type /\ strs[i][type + 1] = port}
    IN  IF hits = {} THEN NoSlot ELSE MaxOf(hits)

\* ---- the lines the model reads -------------------------------------------
SlotNumbers == {1, 2, 8, 9}
PortTexts == {<<"2", "0">>, <<"2", "1">>, <<"2", "A">>}
FileNames == {"7_a.jpg"}
StreamNames == {"MPS"}
TypeCodes == {29, 2}

\* the number of a data declaration is not used by the code
SigLines == [kind : {"SIG"}, type : {"audio"}, number : SlotNumbers,
             name : StreamNames]
            \cup [kind : {"SIG"}, type : {"data"}, number : {1},
                  name : StreamNames]
DataComponentLines == [kind : {"DC"}, id : {0, 1}, port : PortTexts,
                       sdt : TypeCodes]
\* whether the announced file is there, and its size, are only logged
LotLines == [kind : {"LOT"}, port : PortTexts, name : FileNames]

\* regex[11] "SIG Service: type=(.*) number=(.*) name=(.*)"
onSigService(line) ==
    LET t == line.type
        n == line.number
        audio == t = "audio" /\ n >= 1 /\ n <= NumSlots
        names1 == IF audio
                  THEN [streamInfo.Streams EXCEPT ![n - 1] = line.name]
                  ELSE streamInfo.Streams
        full == t = "data" /\ numServices >= NumServices
    IN  /\ lastType' = t
        /\ numStreams' = IF audio THEN n ELSE numStreams
        /\ numServices' = IF t = "data" /\ ~full THEN numServices + 1
                          ELSE numServices
        /\ streamInfo' =
              [streamInfo EXCEPT
                 !.Streams = names1,
                 !.Services = IF t = "data" /\ ~full
                              THEN [@ EXCEPT ![numServices] = line.name]
                              ELSE @]
        /\ raised' = full
        /\ outcome' = IF full THEN "sigIndexError" ELSE "sig"
        /\ UNCHANGED <<streams, stationLogos>>

onDataComponent_anytype(line) ==
    LET p == HexVal(DecPrefix(line.port))
        audio == lastType = "audio" /\ numStreams > 0
        data == line.id = 0 /\ numServices > 0
    IN  /\ streams' = IF audio
                      THEN [streams EXCEPT ![numStreams - 1] = Append(@, p)]
                      ELSE streams
        /\ streamInfo' =
              IF data
              THEN [streamInfo EXCEPT !.SvcTypes[numServices - 1] =
                                          service_data_type_name(line.sdt)]
              ELSE streamInfo
        /\ raised' = FALSE
        /\ outcome' = "dataComponent"
        /\ UNCHANGED <<numStreams, numServices, lastType, stationLogos>>

\* regex[12] "Data component: id= port= service_data_type="
onDataComponent(line) ==
    LET p == HexVal(DecPrefix(line.port))
        audio == lastType = "audio" /\ numStreams > 0
        data == lastType = "data" /\ line.id = 0 /\ numServices > 0
    IN  /\ streams' = IF audio
                      THEN [streams EXCEPT ![numStreams - 1] = Append(@, p)]
                      ELSE streams
        /\ streamInfo' =
              IF data
              THEN [streamInfo EXCEPT !.SvcTypes[numServices - 1] =
                                          service_data_type_name(line.sdt)]
              ELSE streamInfo
        /\ raised' = FALSE
        /\ outcome' = "dataComponent"
        /\ UNCHANGED <<numStreams, numServices, lastType, stationLogos>>

onLotFile_anyslot(line) ==
    LET p == HexVal(line.port)
        coverStream == checkPorts(streams, p, 0)
        logoStream == checkPorts(streams, p, 1)
    IN  /\ streamInfo' =
              IF coverStream > NoSlot
              THEN (IF cbCoverIncl \/ ~cbCovers
                    THEN [streamInfo EXCEPT !.Cover = line.name]
                    ELSE streamInfo)
              ELSE IF logoStream > NoSlot /\ logoStream = streamNum
                   THEN [streamInfo EXCEPT !.Logo = line.name]
                   ELSE streamInfo
        /\ stationLogos' =
              IF coverStream = NoSlot /\ logoStream > NoSlot
              THEN [stationLogos EXCEPT ![logoStream] = line.name]
              ELSE stationLogos
        /\ raised' = FALSE
        /\ outcome' = IF coverStream > NoSlot THEN "lotCover"
                      ELSE IF logoStream > NoSlot THEN "lotLogo" ELSE "lotOther"
        /\ UNCHANGED portVars

\* regex[7] "LOT file: port= lot= name= size= mime=", for a file that is
\* neither a weather nor a traffic file
onLotFile(line) ==
    LET p == HexVal(line.port)
        coverStream == checkPorts(streams, p, 0)
        logoStream == checkPorts(streams, p, 1)
    IN  /\ streamInfo' =
              IF coverStream > NoSlot
              THEN (IF coverStream = streamNum /\ (cbCoverIncl \/ ~cbCovers)
                    THEN [streamInfo EXCEPT !.Cover = line.name]
                    ELSE streamInfo)
              ELSE IF logoStream > NoSlot /\ logoStream = streamNum
                   THEN [streamInfo EXCEPT !.Logo = line.name]
                   ELSE streamInfo
        /\ stationLogos' =
              IF coverStream = NoSlot /\ logoStream > NoSlot
              THEN [stationLogos EXCEPT ![logoStream] = line.name]
              ELSE stationLogos
        /\ raised' = FALSE
        /\ outcome' = IF coverStream > NoSlot THEN "lotCover"
                      ELSE IF logoStream > NoSlot THEN "lotLogo" ELSE "lotOther"
        /\ UNCHANGED portVars

Unmatched_raises ==
    /\ raised' = TRUE
    /\ outcome' = "unmatched"
    /\ UNCHANGED stationVars

\* a line that matches no pattern is ignored
Unmatched ==
    /\ raised' = FALSE
    /\ outcome' = "unmatched"
    /\ UNCHANGED stationVars

\* parseFeedback(line), for the three line families above
parseFeedback(line) ==
    CASE line.kind = "LOT" ->
            IF MatchesLot(line.port) THEN onLotFile(line) ELSE Unmatched
      [] line.kind = "SIG" -> onSigService(line)
      [] line.kind = "DC" ->
            IF MatchesDataComponent(line.port) THEN onDataComponent(line)
            ELSE Unmatched

\* one pass of the loop of play(): a line is read and parsed
ReadLine(line) ==
    /\ parseFeedback(line)
    /\ lastDecl' = IF line.kind = "SIG" THEN line ELSE lastDecl
    /\ UNCHANGED <<trafficVars, tileEnvVars, weatherVars, wxEnvVars, aasFiles,
                   settingVars>>

\* nrsc5 prints a "SIG Service" line; the declaration and port lines, which
\* make the tables grow, are bounded
SigLine ==
    \E line \in SigLines :
        /\ lineCount < MaxLines
        /\ lineCount' = lineCount + 1
        /\ ReadLine(line)
        /\ UNCHANGED <<sessionVars, statusVars, threadVars>>

\* nrsc5 prints a "Data component" line
DataComponentLine ==
    \E line \in DataComponentLines :
        /\ lineCount < MaxLines
        /\ lineCount' = lineCount + 1
        /\ ReadLine(line)
        /\ UNCHANGED <<sessionVars, statusVars, threadVars>>

\* nrsc5 prints a "LOT file" line
LotLine ==
    \E line \in LotLines :
        /\ UNCHANGED <<lineCount, sessionVars, statusVars,
                       threadVars>>
        /\ ReadLine(line)

\* ---- asset router: the whole "LOT file" branch ----------------------------
\* The announced file names: a plain image and one file of each map family.
\* The name starts with the LOT id ("7"), so headerOffset is 2.
TileFile == "7_TMT_x_3_3_19700101_0001_0A.png"
OverlayFile == "7_DWRO_A_x_19700101_0001_0A.png"
InfoFile == "7_DWRI_A_x.txt"
InfoFileText == <<IdLineOf["A"], CoordLineOf[1]>>
AnnouncedNames == FileNames \cup {TileFile, OverlayFile, InfoFile}
Announcements == [kind : {"LOT"}, port : PortTexts, name : AnnouncedNames]

\* fileName[headerOffset:(5+headerOffset)], the marker after the LOT id
MarkerOf(name) ==
    CASE name = TileFile -> "TMT_"
      [] name = OverlayFile -> "DWRO_"
      [] name = InfoFile -> "DWRI_"
      [] OTHER -> ""

\* the raw file in aasDir, by the fields the map handlers parse from its name
RawFile(name) ==
    CASE name = TileFile -> TileName(GridSize - 1, GridSize - 1, 1)
      [] name = OverlayFile -> OverlayName("A", 1)
      [] OTHER -> [kind |-> "file", name |-> name]

routeLot_markerfirst(line, present) ==
    LET p == HexVal(line.port)
        coverStream == checkPorts(streams, p, 0)
        logoStream == checkPorts(streams, p, 1)
        marker == MarkerOf(line.name)
    IN  IF marker = ""
        THEN /\ onLotFile(line)
             /\ UNCHANGED <<aasFiles, trafficVars, weatherVars>>
        ELSE CASE marker = "DWRO_" ->
                    /\ processWeatherOverlay("A", 1, present)
                    /\ UNCHANGED <<trafficVars, stationVars>>
               [] marker = "TMT_" ->
                    /\ finishTrafficMap(GridSize - 1, GridSize - 1, 1, present)
                    /\ UNCHANGED <<weatherVars, stationVars>>
               [] marker = "DWRI_" ->
                    /\ proccessWeatherInfoFile(present, InfoFileText)
                    /\ UNCHANGED <<trafficVars, stationVars>>

\* lines 1651-1680: cover, else logo, else the marker of the file name;
\* present: nrsc5 has written the file to aasDir before announcing it
routeLot(line, present) ==
    LET p == HexVal(line.port)
        coverStream == checkPorts(streams, p, 0)
        logoStream == checkPorts(streams, p, 1)
        marker == MarkerOf(line.name)
    IN  IF coverStream > NoSlot \/ logoStream > NoSlot \/ marker = ""
        THEN /\ onLotFile(line)
             /\ aasFiles' = IF present /\ marker \in {"TMT_", "DWRO_"}
                            THEN aasFiles \cup {RawFile(line.name)}
                            ELSE aasFiles
             /\ UNCHANGED <<trafficVars, weatherVars>>
        ELSE CASE marker = "DWRO_" ->
                    /\ processWeatherOverlay("A", 1, present)
                    /\ UNCHANGED <<trafficVars, stationVars>>
               [] marker = "TMT_" ->
                    /\ finishTrafficMap(GridSize - 1, GridSize - 1, 1, present)
                    /\ UNCHANGED <<weatherVars, stationVars>>
               [] marker = "DWRI_" ->
                    /\ proccessWeatherInfoFile(present, InfoFileText)
                    /\ UNCHANGED <<trafficVars, stationVars>>

\* parseFeedback(line) for a "LOT file" line of any of the announced names
ReadAnnouncement(line, present) ==
    IF MatchesLot(line.port)
    THEN routeLot(line, present)
    ELSE Unmatched /\ UNCHANGED <<aasFiles, trafficVars, weatherVars>>

\* nrsc5 prints a "LOT file" line for a file of any kind
LotAnnouncement ==
    \E line \in Announcements, present \in BOOLEAN :
        /\ ReadAnnouncement(line, present)
        /\ UNCHANGED <<tileEnvVars, wxEnvVars, settingVars, lineEnvVars,
                       sessionVars, statusVars,
                       threadVars>>

NoDecl == [kind |-> "SIG", type |-> NoType, number |-> 0, name |-> ""]

\* the dictionary initStreamInfo() builds
DefaultStreamInfo == [Callsign |-> "",
                      Slogan |-> "",
                      Message |-> "",
                      Alert |-> "",
                      Title |-> "",
                      Album |-> "",
                      Genre |-> "",
                      Artist |-> "",
                      Cover |-> "",
                      Logo |-> "",
                      Streams |-> [i \in Slots |-> ""],
                      Programs |-> [i \in Slots |-> ""],
                      Services |-> [i \in SvcIdx |-> ""],
                      SvcTypes |-> [i \in SvcIdx |-> ""],
                      Bitrate |-> 0,
                      MER |-> <<0, 0>>,
                      BER |-> <<0, 0, 0, 0>>,
                      Gain |-> 0]

\* the status fields after __init__: initStreamInfo() ends with
\* set_synchronization(0); no status update and no refresh pass is running
Unsynced == 0
Synced == 1
LostDevice == -1
PollIdle == [pc |-> "idle", ber |-> <<>>, mer |-> <<>>]
NoPass == [pc |-> "done", files |-> <<>>, clock |-> 0, hit |-> FALSE]
\* self.nrsc5 = None and no thread in the loop of play()
NoPlayer == [proc |-> "none", status |-> 0, loop |-> FALSE]
\* self.mapViewer = None
NoViewer == [open |-> FALSE, shared |-> TRUE, maps |-> <<>>, mapIndex |-> 0,
             mode |-> 0, animate |-> FALSE, timer |-> "none", busy |-> FALSE,
             stop |-> FALSE, pc |-> "idle", file |-> [id |-> "", ts |-> 0],
             notify |-> FALSE, closing |-> FALSE]

InitStatus ==
    /\ syncStatus = Unsynced
    /\ lastXHDR = ""
    /\ lastLOT = ""
    /\ xhdrChanged = FALSE
    /\ poll = PollIdle
    /\ refresh = [p \in {1, 2} |-> NoPass]
    /\ player = NoPlayer
    /\ viewer = NoViewer

\* initStreamInfo()
InitStation ==
    /\ streams = [i \in Slots |-> <<>>]
    /\ numStreams = 0
    /\ numServices = 0
    /\ lastType = NoType
    /\ streamInfo = DefaultStreamInfo
    /\ stationLogos = [i \in Slots |-> ""]
    /\ lastDecl = NoDecl
    /\ lineCount = 0

\* the first tune session is running: on_btnPlay_clicked has set playing
InSession ==
    /\ playing = TRUE
    /\ lingering = FALSE
    /\ sessions = 1
    /\ InitStatus

InitTraffic ==
    /\ mapTiles = [c \in Cells |-> EmptyTs]
    /\ mapComplete = FALSE
    /\ tileFiles = {}
    /\ trafficMapWrites = 0

\* the state after __init__ on a fresh installation, the first tune session
\* started; the environment's part (carousel timestamp, reference map
\* present) is fixed per specification
InitWith(ts, refMap, tuned, toggles) ==
    /\ InitTraffic
    /\ InitWeather
    /\ InitStation
    /\ streamNum \in tuned
    /\ \E tg \in toggles : cbCoverIncl = tg[1] /\ cbCovers = tg[2]
    /\ aasFiles = {}
    /\ raised = FALSE
    /\ outcome = "none"
    /\ carouselTs \in ts
    /\ upsets = 0
    /\ mapFile \in refMap
    /\ now = MaxTs
    /\ wxEvents = 0
    /\ InSession

Init == InitWith({1}, {TRUE}, {0}, {<<TRUE, TRUE>>})

NextTraffic == TileArrival

SpecTraffic == Init /\ [][NextTraffic]_vars

InitWx == InitWith({1}, BOOLEAN, {0}, {<<TRUE, TRUE>>})

NextWeather == OverlayArrival \/ InfoArrival \/ Tick

SpecWeather == InitWx /\ [][NextWeather]_vars

\* a later run: mapDir keeps the base map BaseMap_A.png an earlier run saved,
\* the reference map is there or has been removed since
KeptBaseMaps == {"A"}

InitKeptMaps ==
    /\ InitTraffic
    /\ InitStation
    /\ weatherID = NoID
    /\ weatherPos = DefaultPos
    /\ weatherTime = EmptyTs
    /\ weatherNow = NoMap
    /\ weatherMaps = <<>>
    /\ wxMapFiles = {}
    /\ baseMaps = KeptBaseMaps
    /\ wxMapWrites = 0
    /\ baseMapWrites = [id \in IDs |-> 0]
    /\ streamNum = 0
    /\ cbCoverIncl = TRUE
    /\ cbCovers = TRUE
    /\ aasFiles = {}
    /\ raised = FALSE
    /\ outcome = "none"
    /\ carouselTs = 1
    /\ upsets = 0
    /\ mapFile \in BOOLEAN
    /\ now = MaxTs
    /\ wxEvents = 0
    /\ InSession

SpecKeptMaps == InitKeptMaps /\ [][NextWeather]_vars

\* the settings: the tuned slot and the two cover toggles
InitSt == InitWith({1}, {TRUE}, {0, 1},
                   {<<TRUE, TRUE>>, <<FALSE, TRUE>>, <<FALSE, FALSE>>})

NextStation == SigLine \/ DataComponentLine \/ LotLine

SpecStation == InitSt /\ [][NextStation]_vars

\* The asset router dispatching to the map subsystems.  The port table is
\* the one the lines "SIG Service: type=audio number=1 name=MPS" and then
\* none, one or two "Data component" lines with ports 20 and 21 leave.
DeclaredSlot == [kind |-> "SIG", type |-> "audio", number |-> 1, name |-> "MPS"]
PortTables == {<<>>, <<32>>, <<32, 33>>}

InitRouter ==
    /\ InitTraffic
    /\ InitWeather
    /\ streams \in {[i \in Slots |-> IF i = 0 THEN t ELSE <<>>] : t \in PortTables}
    /\ numStreams = 1
    /\ numServices = 0
    /\ lastType = "audio"
    /\ streamInfo = [DefaultStreamInfo EXCEPT !.Streams[0] = "MPS"]
    /\ stationLogos = [i \in Slots |-> ""]
    /\ lastDecl = DeclaredSlot
    /\ lineCount = 1 + Len(streams[0])
    /\ streamNum = 0
    /\ cbCoverIncl = TRUE
    /\ cbCovers = TRUE
    /\ aasFiles = {}
    /\ raised = FALSE
    /\ outcome = IF streams[0] = <<>> THEN "sig" ELSE "dataComponent"
    /\ carouselTs = 1
    /\ upsets = 0
    /\ mapFile = TRUE
    /\ now = MaxTs
    /\ wxEvents = 0
    /\ InSession

NextRouter == LotAnnouncement

SpecRouter == InitRouter /\ [][NextRouter]_vars

\* ---- tune sessions ---------------------------------------------------------
MaxSessions == 2

\* initStreamInfo(): the fields and tables it assigns
initStreamInfo ==
    /\ streamInfo' = DefaultStreamInfo
    /\ streams' = [i \in Slots |-> <<>>]
    /\ numStreams' = 0
    /\ numServices' = 0
    /\ lastType' = NoType

\* displayLogo(): the cached logo of the tuned slot is shown if its file is
\* still in aasDir
displayLogo(logoThere) ==
    IF stationLogos[streamNum] # "" /\ logoThere
    THEN [streamInfo EXCEPT !.Logo = stationLogos[streamNum]]
    ELSE streamInfo

\* displayLogo() on the dictionary info, for the tuned slot num
displayLogoOn(info, num, logoThere) ==
    IF stationLogos[num] # "" /\ logoThere
    THEN [info EXCEPT !.Logo = stationLogos[num]]
    ELSE info

\* the assignments at the head of on_stream_changed()
clearNowPlaying(info) ==
    [info EXCEPT !.Title = "", !.Album = "", !.Artist = "", !.Genre = "",
                 !.Cover = "", !.Logo = "", !.Bitrate = 0]

\* on_btnPlay_clicked(btn)
on_btnPlay_clicked(logoThere) ==
    IF ~playing
    THEN /\ playing' = TRUE
         /\ streamInfo' = displayLogo(logoThere)
    ELSE UNCHANGED <<playing, streamInfo>>

on_btnStop_clicked_resetmap(joins, joined) ==
    /\ playing' = FALSE
    /\ lingering' = (lingering \/ ~(joins /\ joined))
    /\ initStreamInfo
    /\ syncStatus' = Unsynced
    /\ mapTiles' = [c \in Cells |-> EmptyTs]
    /\ mapComplete' = FALSE
    /\ UNCHANGED <<tileFiles, trafficMapWrites, weatherVars, stationLogos>>

\* on_btnStop_clicked(btn) while playing.  joins: btn is not None, so the
\* handler waits for the player thread, for one second at most; joined:
\* the thread left its loop within that second.  With btn None (the call of
\* on_listviewBookmarks_row_activated) nobody waits for the thread.
\* initStreamInfo() ends with set_synchronization(0).
on_btnStop_clicked(joins, joined) ==
    /\ playing' = FALSE
    /\ lingering' = (lingering \/ ~(joins /\ joined))
    /\ initStreamInfo
    /\ syncStatus' = Unsynced
    /\ UNCHANGED <<trafficVars, weatherVars, stationLogos>>

\* the user starts a tune session
PlayClicked ==
    \E logoThere \in BOOLEAN :
        /\ ~playing
        /\ sessions < MaxSessions
        /\ sessions' = sessions + 1
        /\ lineCount' = 0
        /\ on_btnPlay_clicked(logoThere)
        /\ lastXHDR' = ""
        /\ lastLOT' = ""
        /\ UNCHANGED xhdrChanged
        /\ UNCHANGED <<trafficVars, tileEnvVars, weatherVars, wxEnvVars, aasFiles,
                       raised, outcome, portVars, stationLogos, settingVars,
                       lastDecl, lingering, syncStatus, threadVars>>

\* the user stops the session, with the Stop button or by activating a
\* bookmark row
StopClicked ==
    \E joins \in BOOLEAN, joined \in BOOLEAN :
        /\ playing
        /\ on_btnStop_clicked(joins, joined)
        /\ UNCHANGED <<tileEnvVars, wxEnvVars, aasFiles, raised, outcome,
                       settingVars, lineEnvVars, sessions, lastXHDR, lastLOT, xhdrChanged,
                       threadVars>>

\* on_listviewBookmarks_row_activated, for the bookmark of the tuned
\* programme: on_stream_changed(), on_btnStop_clicked(None) if playing (which
\* waits for nobody), a sleep of one second, on_btnPlay_clicked(None).
\* exited: the player thread left its loop within that second.
BookmarkActivated ==
    \E exited \in BOOLEAN, logoThere \in BOOLEAN :
        /\ sessions < MaxSessions
        /\ sessions' = sessions + 1
        /\ lineCount' = 0
        /\ playing' = TRUE
        /\ lingering' = (lingering \/ (playing /\ ~exited))
        /\ IF playing
           THEN /\ streamInfo' =
                      displayLogoOn(DefaultStreamInfo, streamNum, logoThere)
                /\ streams' = [i \in Slots |-> <<>>]
                /\ numStreams' = 0
                /\ numServices' = 0
                /\ lastType' = NoType
                /\ syncStatus' = Unsynced
           ELSE /\ streamInfo' =
                      displayLogoOn(clearNowPlaying(streamInfo), streamNum,
                                    logoThere)
                /\ UNCHANGED <<portVars, syncStatus>>
        /\ lastXHDR' = ""
        /\ lastLOT' = ""
        /\ UNCHANGED xhdrChanged
        /\ UNCHANGED <<trafficVars, tileEnvVars, weatherVars, wxEnvVars,
                       aasFiles, raised, outcome, stationLogos, settingVars,
                       lastDecl, threadVars>>

DeviceFailed_resetonly ==
    /\ playing
    /\ playing' = FALSE
    /\ initStreamInfo
    /\ syncStatus' = Unsynced
    /\ raised' = FALSE
    /\ outcome' = "deviceFailed"
    /\ UNCHANGED <<trafficVars, tileEnvVars, weatherVars, wxEnvVars, aasFiles,
                   stationLogos, settingVars, lineEnvVars, lingering, sessions,
                   lastXHDR, lastLOT, xhdrChanged, threadVars>>

\* regex[22] "Open device failed": the player thread itself calls
\* on_btnStop_clicked(None), then set_synchronization(-1); nrsc5 exits
\* after this line, so the thread reads the end of its output next and
\* leaves the loop
DeviceFailed ==
    /\ playing
    /\ playing' = FALSE
    /\ initStreamInfo
    /\ syncStatus' = LostDevice
    /\ raised' = FALSE
    /\ outcome' = "deviceFailed"
    /\ UNCHANGED <<trafficVars, tileEnvVars, weatherVars, wxEnvVars, aasFiles,
                   stationLogos, settingVars, lineEnvVars, lingering, sessions,
                   lastXHDR, lastLOT, xhdrChanged, threadVars>>

\* regex[19], [20], [21]: the status each of the three lines gives to
\* set_synchronization
SyncLines == {"Synchronized", "Lost synchronization", "Lost device"}

StatusOfLine(text) ==
    CASE text = "Synchronized" -> Synced
      [] text = "Lost synchronization" -> Unsynced
      [] text = "Lost device" -> LostDevice

onSyncLine(text) ==
    /\ syncStatus' = StatusOfLine(text)
    /\ raised' = FALSE
    /\ outcome' = text

\* the player thread of the running session reads one of these lines
SyncLine ==
    \E text \in SyncLines :
        /\ playing
        /\ onSyncLine(text)
        /\ UNCHANGED <<trafficVars, tileEnvVars, weatherVars, wxEnvVars, aasFiles,
                       stationVars, settingVars, lineEnvVars, sessionVars,
                       lastXHDR, lastLOT, xhdrChanged, threadVars>>

\* the lines nrsc5 prints in these sessions
SessionLines ==
    {[kind |-> "SIG", type |-> "audio", number |-> 1, name |-> "MPS"],
     [kind |-> "DC", id |-> 0, port |-> <<"2", "0">>, sdt |-> 29],
     [kind |-> "LOT", port |-> <<"2", "0">>, name |-> "7_a.jpg"]}

\* the player thread of the running session reads a line
SessionLine ==
    \E line \in SessionLines :
        /\ playing
        /\ lineCount < MaxLines
        /\ lineCount' = lineCount + 1
        /\ ReadLine(line)
        /\ UNCHANGED <<sessionVars, statusVars, threadVars>>

\* the player thread of the running session reads the announcement of a
\* tile of the carousel
SessionTile ==
    \E x \in Rows, y \in Rows :
        /\ playing
        /\ lineCount < MaxLines
        /\ lineCount' = lineCount + 1
        /\ finishTrafficMap(x, y, carouselTs, TRUE)
        /\ UNCHANGED <<tileEnvVars, weatherVars, wxEnvVars, stationVars,
                       settingVars, lastDecl, sessionVars, statusVars,
                       threadVars>>

\* a player thread that outlived its session handles a line nrsc5 printed
\* before it went; the loop ends once nrsc5.poll() is true
LateLine ==
    \E line \in SessionLines, goesOn \in BOOLEAN :
        /\ lingering
        /\ lineCount < MaxLines
        /\ lineCount' = lineCount + 1
        /\ ReadLine(line)
        /\ lingering' = goesOn
        /\ UNCHANGED <<playing, sessions, statusVars, threadVars>>

\* a player thread that outlived its session reads the end of the output
\* and breaks out of the loop
PlayerExits ==
    /\ lingering
    /\ lingering' = FALSE
    /\ UNCHANGED <<trafficVars, tileEnvVars, weatherVars, wxEnvVars, aasFiles,
                   raised, outcome, stationVars, settingVars, lineEnvVars,
                   playing, sessions, statusVars, threadVars>>

\* MapState as config.json of an earlier run gives it back: six tiles of the
\* current traffic map, and the weather area with its last composite
SavedCells == {c \in Cells : c[1] < GridSize - 1}

InitSession ==
    /\ mapTiles = [c \in Cells |-> IF c \in SavedCells THEN 1 ELSE EmptyTs]
    /\ mapComplete = FALSE
    /\ tileFiles = SavedCells
    /\ trafficMapWrites = 0
    /\ weatherID = "A"
    /\ weatherPos = 1
    /\ weatherTime = 1
    /\ weatherNow = WxMap("A", 1)
    /\ weatherMaps = <<WxMap("A", 1)>>
    /\ wxMapFiles = {WxMap("A", 1)}
    /\ baseMaps = {"A"}
    /\ wxMapWrites = 0
    /\ baseMapWrites = [id \in IDs |-> 0]
    /\ InitStation
    /\ streamNum = 0
    /\ cbCoverIncl = TRUE
    /\ cbCovers = TRUE
    /\ aasFiles = {}
    /\ raised = FALSE
    /\ outcome = "none"
    /\ carouselTs = 1
    /\ upsets = 0
    /\ mapFile = TRUE
    /\ now = MaxTs
    /\ wxEvents = 0
    /\ playing = FALSE
    /\ lingering = FALSE
    /\ sessions = 0
    /\ InitStatus

NextSession ==
    \/ PlayClicked
    \/ StopClicked
    \/ BookmarkActivated
    \/ DeviceFailed
    \/ SessionLine
    \/ SessionTile
    \/ SyncLine
    \/ LateLine
    \/ PlayerExits

SpecSession == InitSession /\ [][NextSession]_vars

\* ---- the pattern chain of parseFeedback -------------------------------------
\* the order in which parseFeedback tries self.regex[n]
Chain == <<4, 5, 6, 15, 3, 8, 9, 13, 23, 7, 0, 2, 16, 17, 10, 11, 12, 18,
           19, 20, 21, 22>>
ChainIndex(n) == CHOOSE i \in 1..Len(Chain) : Chain[i] = n
NoPattern == -1

\* self.ProgramType
ProgramType ==
    [k \in (0..26) \cup {29, 30, 31, 65, 76} |->
        CASE k = 0 -> "None" [] k = 1 -> "News" [] k = 2 -> "Information"
          [] k = 3 -> "Sports" [] k = 4 -> "Talk" [] k = 5 -> "Rock"
          [] k = 6 -> "Classic Rock" [] k = 7 -> "Adult Hits"
          [] k = 8 -> "Soft Rock" [] k = 9 -> "Top 40" [] k = 10 -> "Country"
          [] k = 11 -> "Oldies" [] k = 12 -> "Soft" [] k = 13 -> "Nostalgia"
          [] k = 14 -> "Jazz" [] k = 15 -> "Classical"
          [] k = 16 -> "Rhythm and Blues"
          [] k = 17 -> "Soft Rhythm and Blues"
          [] k = 18 -> "Foreign Language" [] k = 19 -> "Religious Music"
          [] k = 20 -> "Religious Talk" [] k = 21 -> "Personality"
          [] k = 22 -> "Public" [] k = 23 -> "College"
          [] k = 24 -> "Spanish Talk" [] k = 25 -> "Spanish Music"
          [] k = 26 -> "Hip-Hop" [] k = 29 -> "Weather"
          [] k = 30 -> "Emergency Test" [] k = 31 -> "Emergency"
          [] k = 65 -> "Traffic" [] k = 76 -> "Special Reading Services"]

\* program_type_name(type): falls off the loop for an unknown code
program_type_name(type) ==
    IF type \in DOMAIN ProgramType THEN ProgramType[type] ELSE PyNone

\* The text after the time stamp is a head ("Title: ", "SIG Service: " with
\* its type and number, or nothing) and a tail.  The tail is free text (.*)
\* for the patterns of the heads; it may hold the phrase regex[12] looks for
\* anywhere in the line (dc), the phrase regex[18] looks for (ac), or both.
DataPhrase == [kind |-> "DC", id |-> 0, port |-> <<"2", "0">>, sdt |-> 29]
AudioPhrase == [kind |-> "AC", id |-> 0, port |-> <<"2", "0">>, type |-> 5]
Tails ==
    {[s |-> "a", dc |-> FALSE, ac |-> FALSE],
     [s |-> "Data component: id=0 port=20 service_data_type=29 x",
      dc |-> TRUE, ac |-> FALSE],
     [s |-> "Audio component: id=0 port=20 type=5 x",
      dc |-> FALSE, ac |-> TRUE],
     [s |-> "Audio component: id=0 port=20 type=5 Data component: id=0 port=20 service_data_type=29 x",
      dc |-> TRUE, ac |-> TRUE]}
TextLines ==
    [kind : {"TXT"}, head : {"", "Title"}, type : {NoType}, number : {0},
     tail : Tails]
    \cup [kind : {"TXT"}, head : {"SIG Service"}, type : {"audio", "data"},
          number : {1}, tail : Tails]

\* self.regex[n].match(line), for the patterns a text line can match
Matches(n, line) ==
    CASE n = 4 -> line.head = "Title"
      [] n = 11 -> line.head = "SIG Service"
      [] n = 12 -> line.tail.dc
      [] n = 18 -> line.tail.ac
      [] OTHER -> FALSE

\* the groups of regex[11]: the name is the whole tail
SigOf(line) == [kind |-> "SIG", type |-> line.type, number |-> line.number,
                name |-> line.tail.s]

\* regex[4], [5], [6], [15], [0], [2], [16], [17]: the tail is stored
onField(key, value) ==
    /\ streamInfo' = [streamInfo EXCEPT ![key] = value]
    /\ raised' = FALSE
    /\ outcome' = key
    /\ UNCHANGED <<portVars, stationLogos>>

\* regex[18] "Audio component: id= port= type="
onAudioComponent(line) ==
    /\ streamInfo' =
          IF lastType = "audio" /\ line.id = 0 /\ numStreams > 0
          THEN [streamInfo EXCEPT !.Programs[numStreams - 1] =
                                      program_type_name(line.type)]
          ELSE streamInfo
    /\ raised' = FALSE
    /\ outcome' = "audioComponent"
    /\ UNCHANGED <<portVars, stationLogos>>

\* the branch of parseFeedback that belongs to regex[n]
HandlerOf(n, line) ==
    CASE n = 4 -> onField("Title", line.tail.s)
      [] n = 11 -> onSigService(SigOf(line))
      [] n = 12 -> onDataComponent(DataPhrase)
      [] n = 18 -> onAudioComponent(AudioPhrase)
      [] OTHER -> Unmatched

parseFeedbackText_portsfirst(line) ==
    IF Matches(12, line) THEN HandlerOf(12, line)
    ELSE IF Matches(4, line) THEN HandlerOf(4, line)
    ELSE IF Matches(11, line) THEN HandlerOf(11, line)
    ELSE IF Matches(18, line) THEN HandlerOf(18, line)
    ELSE Unmatched

\* parseFeedback(line) for a text line: the if/elif chain, without else
parseFeedbackText(line) ==
    IF Matches(4, line) THEN HandlerOf(4, line)
    ELSE IF Matches(11, line) THEN HandlerOf(11, line)
    ELSE IF Matches(12, line) THEN HandlerOf(12, line)
    ELSE IF Matches(18, line) THEN HandlerOf(18, line)
    ELSE Unmatched

\* one pass of the loop of play() for a text line
ReadText(line) ==
    /\ parseFeedbackText(line)
    /\ lastDecl' = IF Matches(11, line) THEN SigOf(line) ELSE lastDecl
    /\ UNCHANGED <<trafficVars, tileEnvVars, weatherVars, wxEnvVars, aasFiles,
                   settingVars, sessionVars, statusVars, threadVars>>

\* nrsc5 prints a line of text
TextLine ==
    \E line \in TextLines :
        /\ lineCount < MaxLines
        /\ lineCount' = lineCount + 1
        /\ ReadText(line)

\* the settings play no part in the handling of a text line
InitChain == InitWith({1}, {TRUE}, {0}, {<<TRUE, TRUE>>})

SpecChain == InitChain /\ [][TextLine]_vars

\* ---- the status poll -------------------------------------------------------
\* The values of the "BER:" and "MER:" lines, in thousandths.
BerValues == {<<1, 2, 1, 3>>, <<4, 5, 4, 6>>}
MerValues == {<<7, 8>>, <<9, 6>>}

\* everything but the position of the poll
pollFrame == <<trafficVars, tileEnvVars, weatherVars, wxEnvVars, aasFiles,
               raised, outcome, stationVars, settingVars, lineEnvVars,
               sessionVars, statusVars, refresh, player, viewer>>

\* regex[9]: the player thread binds streamInfo["BER"] to a new list
BerLine ==
    \E b \in BerValues :
        /\ playing
        /\ onField("BER", b)
        /\ UNCHANGED <<trafficVars, tileEnvVars, weatherVars, wxEnvVars,
                       aasFiles, settingVars, lineEnvVars, sessionVars,
                       statusVars, threadVars>>

\* regex[8]: the player thread binds streamInfo["MER"] to a new list
MerLine ==
    \E m \in MerValues :
        /\ playing
        /\ onField("MER", m)
        /\ UNCHANGED <<trafficVars, tileEnvVars, weatherVars, wxEnvVars,
                       aasFiles, settingVars, lineEnvVars, sessionVars,
                       statusVars, threadVars>>

\* the main loop runs update(), which the timer thread of checkStatus queued
PollStart ==
    /\ poll.pc \in {"idle", "done"}
    /\ poll' = [pc |-> "ber", ber |-> <<>>, mer |-> <<>>]
    /\ UNCHANGED pollFrame

\* ber = [self.streamInfo["BER"][i]*100 for i in range(4)]: one lookup of
\* the dictionary entry for each i, without a lock
PollReadBer ==
    /\ poll.pc = "ber"
    /\ LET b == Append(poll.ber, streamInfo.BER[Len(poll.ber) + 1] * 100)
       IN  poll' = [poll EXCEPT !.ber = b,
                                !.pc = IF Len(b) = 4 THEN "mer" ELSE "ber"]
    /\ UNCHANGED pollFrame

\* lblMerLower and lblMerUpper: streamInfo["MER"][0], then streamInfo["MER"][1]
PollReadMer ==
    /\ poll.pc = "mer"
    /\ LET m == Append(poll.mer, streamInfo.MER[Len(poll.mer) + 1])
       IN  poll' = [poll EXCEPT !.mer = m,
                                !.pc = IF Len(m) = 2 THEN "done" ELSE "mer"]
    /\ UNCHANGED pollFrame

\* the player thread reads lines (and, for "Open device failed", runs
\* initStreamInfo) while the main loop polls
NextPoll ==
    \/ BerLine
    \/ MerLine
    \/ DeviceFailed
    \/ PollStart
    \/ PollReadBer
    \/ PollReadMer

SpecPoll == InitChain /\ [][NextPoll]_vars

\* ---- two passes of proccessWeatherMaps at a time ----------------------------
\* The pass runs on the player thread that handled the overlay or the
\* metadata; with two player threads alive two passes interleave.
Threads == {1, 2}

\* files.sort(): by the name WeatherMap_<id>_<ts>.png
IdRank(id) == IF id = "A" THEN 0 ELSE 1
NameBefore(f, g) ==
    IdRank(f.id) < IdRank(g.id) \/ (f.id = g.id /\ f.ts <= g.ts)
RECURSIVE SortedByName(_)
SortedByName(S) ==
    IF S = {} THEN <<>>
    ELSE LET m == CHOOSE f \in S : \A g \in S : NameBefore(f, g)
         IN  <<m>> \o SortedByName(S \ {m})

\* self.weatherMaps.pop(self.weatherMaps.index(f))
RECURSIVE PopFirst(_, _)
PopFirst(list, f) ==
    IF list = <<>> THEN <<>>
    ELSE IF Head(list) = f THEN Tail(list)
    ELSE <<Head(list)>> \o PopFirst(Tail(list), f)

\* now = ...; files = glob.glob(...); files.sort()
StartPass(files) ==
    [pc |-> "loop", files |-> SortedByName(files), clock |-> now,
     hit |-> FALSE]

refreshFrame == <<trafficVars, tileEnvVars, mapFile, now, stationVars,
                  settingVars, lineEnvVars, sessionVars, statusVars, poll,
                  player, viewer>>

\* a player thread has composited the overlay of a new timestamp for the
\* area on display (finishWeatherOverlay up to its call of the pass)
OverlaySaved ==
    \E p \in Threads, ts \in Times :
        /\ refresh[p].pc = "done"
        /\ wxEvents < MaxWxEvents
        /\ wxEvents' = wxEvents + 1
        /\ weatherID \in baseMaps
        /\ weatherTime # ts
        /\ weatherTime' = ts
        /\ wxMapWrites' = wxMapWrites + 1
        /\ weatherNow' = WxMap(weatherID, ts)
        /\ wxMapFiles' = wxMapFiles \cup {WxMap(weatherID, ts)}
        /\ refresh' = [refresh EXCEPT ![p] = StartPass(wxMapFiles')]
        /\ raised' = FALSE
        /\ outcome' = "overlayComposited"
        /\ UNCHANGED <<weatherID, weatherPos, weatherMaps, baseMaps,
                       baseMapWrites, aasFiles, refreshFrame>>

\* a player thread has read metadata with new coordinates for the area
\* (proccessWeatherInfo up to its call of the pass): the list is emptied
InfoChanged ==
    \E p \in Threads, pos \in Boxes :
        /\ refresh[p].pc = "done"
        /\ wxEvents < MaxWxEvents
        /\ wxEvents' = wxEvents + 1
        /\ mapFile
        /\ weatherPos # pos
        /\ weatherPos' = pos
        /\ baseMaps' = BaseMapsAfter(weatherID)
        /\ baseMapWrites' = BaseMapWritesAfter(weatherID)
        /\ weatherMaps' = <<>>
        /\ refresh' = [refresh EXCEPT ![p] = StartPass(wxMapFiles)]
        /\ raised' = FALSE
        /\ outcome' = "infoChanged"
        /\ UNCHANGED <<weatherID, weatherTime, weatherNow, wxMapFiles,
                       wxMapWrites, aasFiles, refreshFrame>>

\* the tests of one round of the loop: now - ts > 60*60*12 and
\* f in self.weatherMaps, or the id and f not in self.weatherMaps
PassCheck ==
    \E p \in Threads :
        LET r == refresh[p]
            f == Head(r.files)
        IN  /\ r.pc = "loop"
            /\ r.files # <<>>
            /\ refresh' =
                  [refresh EXCEPT ![p] =
                     IF TooOld(f, r.clock)
                     THEN [r EXCEPT !.pc = "old",
                                    !.hit = InSeq(f, weatherMaps)]
                     ELSE IF f.id = weatherID
                     THEN [r EXCEPT !.pc = "keep",
                                    !.hit = ~InSeq(f, weatherMaps)]
                     ELSE [r EXCEPT !.files = Tail(r.files)]]
            /\ UNCHANGED <<weatherVars, wxEnvVars, aasFiles, raised, outcome,
                           refreshFrame>>

\* what follows the tests.  An old file: pop(index(f)), os.remove(f); the
\* ValueError of index (f was popped meanwhile) and the error of os.remove
\* (f was removed meanwhile) end the try block and are caught.  A file of
\* the area: append(f) if the test found it missing.
PassAct ==
    \E p \in Threads :
        LET r == refresh[p]
            f == Head(r.files)
            gone == r.hit /\ ~InSeq(f, weatherMaps)
        IN  /\ r.pc \in {"old", "keep"}
            /\ weatherMaps' =
                  IF r.pc = "old"
                  THEN (IF r.hit THEN PopFirst(weatherMaps, f) ELSE weatherMaps)
                  ELSE (IF r.hit THEN Append(weatherMaps, f) ELSE weatherMaps)
            /\ wxMapFiles' = IF r.pc = "old" /\ ~gone THEN wxMapFiles \ {f}
                             ELSE wxMapFiles
            /\ refresh' = [refresh EXCEPT ![p] =
                              [r EXCEPT !.pc = "loop", !.files = Tail(r.files)]]
            /\ UNCHANGED <<weatherID, weatherPos, weatherTime, weatherNow,
                           baseMaps, wxMapWrites, baseMapWrites, wxEnvVars,
                           aasFiles, raised, outcome, refreshFrame>>

\* the loop is over
PassEnd ==
    \E p \in Threads :
        /\ refresh[p].pc = "loop"
        /\ refresh[p].files = <<>>
        /\ refresh' = [refresh EXCEPT ![p] = NoPass]
        /\ UNCHANGED <<weatherVars, wxEnvVars, aasFiles, raised, outcome,
                       refreshFrame>>

\* two player threads are alive (a session was started while the thread of
\* the one before lingered); the area A is on display with its composite of
\* timestamp 1, and mapDir also keeps a composite of the area B
InitRefresh ==
    /\ InitTraffic
    /\ InitStation
    /\ weatherID = "A"
    /\ weatherPos = 1
    /\ weatherTime = 1
    /\ weatherNow = WxMap("A", 1)
    /\ weatherMaps = <<WxMap("A", 1)>>
    /\ wxMapFiles = {WxMap("A", 1), WxMap("B", 1)}
    /\ baseMaps = {"A"}
    /\ wxMapWrites = 1
    /\ baseMapWrites = [id \in IDs |-> IF id = "A" THEN 1 ELSE 0]
    /\ streamNum = 0
    /\ cbCoverIncl = TRUE
    /\ cbCovers = TRUE
    /\ aasFiles = {}
    /\ raised = FALSE
    /\ outcome = "none"
    /\ carouselTs = 1
    /\ upsets = 0
    /\ mapFile = TRUE
    /\ now = MaxTs
    /\ wxEvents = 0
    /\ playing = TRUE
    /\ lingering = TRUE
    /\ sessions = 2
    /\ InitStatus

NextRefresh ==
    \/ OverlaySaved
    \/ InfoChanged
    \/ PassCheck
    \/ PassAct
    \/ PassEnd
    \/ Tick

SpecRefresh == InitRefresh /\ [][NextRefresh]_vars

\* ---- stream switch -----------------------------------------------------------
\* regex[13] "XHDR: (.*) ([0-9A-Fa-f]{8}) (.*)"
onXhdr_always(xhdr, lot) ==
    /\ lastXHDR' = xhdr
    /\ lastLOT' = lot
    /\ xhdrChanged' = TRUE
    /\ raised' = FALSE
    /\ outcome' = "xhdr"
    /\ UNCHANGED stationVars

\* regex[13] "XHDR: tag mime lot": the branch of parseFeedback
onXhdr(xhdr, lot) ==
    /\ lastXHDR' = IF xhdr # lastXHDR \/ lot # lastLOT THEN xhdr ELSE lastXHDR
    /\ lastLOT' = IF xhdr # lastXHDR \/ lot # lastLOT THEN lot ELSE lastLOT
    /\ xhdrChanged' = (xhdrChanged \/ xhdr # lastXHDR \/ lot # lastLOT)
    /\ raised' = FALSE
    /\ outcome' = "xhdr"
    /\ UNCHANGED stationVars

XhdrTags == {"1"}
XhdrLots == {"5", "-1"}

\* nrsc5 prints an "XHDR" line
XhdrLine ==
    \E xhdr \in XhdrTags, lot \in XhdrLots :
        /\ playing
        /\ onXhdr(xhdr, lot)
        /\ UNCHANGED <<trafficVars, tileEnvVars, weatherVars, wxEnvVars,
                       aasFiles, settingVars, lineEnvVars, sessionVars,
                       syncStatus, threadVars>>

\* the player thread of the running session reads a text line
TunedText ==
    /\ playing
    /\ TextLine

\* the player thread of the running session reads a "LOT file" line
TunedLot ==
    /\ playing
    /\ LotLine

on_stream_changed_keepsxhdr(logoThere) ==
    /\ UNCHANGED <<lastXHDR, lastLOT, xhdrChanged>>
    /\ streamInfo' =
          IF playing
          THEN displayLogoOn(clearNowPlaying(streamInfo), streamNum', logoThere)
          ELSE clearNowPlaying(streamInfo)

\* on_stream_changed(), after the caller has set self.streamNum
on_stream_changed(logoThere) ==
    /\ lastXHDR' = ""
    /\ lastLOT' = ""
    /\ UNCHANGED xhdrChanged
    /\ streamInfo' =
          IF playing
          THEN displayLogoOn(clearNowPlaying(streamInfo), streamNum', logoThere)
          ELSE clearNowPlaying(streamInfo)

TunableSlots == {0, 1}

\* on_program_select: the user picks a programme of the station
ProgramSelected ==
    \E num \in TunableSlots, logoThere \in BOOLEAN :
        /\ streamNum' = num
        /\ on_stream_changed(logoThere)
        /\ raised' = FALSE
        /\ outcome' = "streamChanged"
        /\ UNCHANGED <<trafficVars, tileEnvVars, weatherVars, wxEnvVars,
                       aasFiles, portVars, stationLogos, cbCoverIncl, cbCovers,
                       lineEnvVars, sessionVars, syncStatus, threadVars>>

NextSwitch ==
    \/ TunedText
    \/ TunedLot
    \/ XhdrLine
    \/ ProgramSelected
    \/ StopClicked

SpecSwitch == InitRouter /\ [][NextSwitch]_vars

\* ---- direct image announcements ("HERE Image") ------------------------------
\* The fields of the line the handlers look at.  type: WEATHER, TRAFFIC or
\* another word of seven capitals.  name: "plain" is the name the type calls
\* for (trafficMap_<x>_<y>_<rest>.png, WeatherImage_<n>_<n>_<id>.png),
\* "prefixed" has text before it, "other" is any other image name.  timeOk:
\* the time field has the form yyyy-mm-ddThh:mm:ssZ.
HereNames == {"plain", "prefixed", "other"}
HereTimes == {1, 2}

\* processHERETrafficMap(fileName, timeStr): x and y are one digit each, so
\* they may lie outside the grid, and mapTiles[x][y] raises IndexError
processHERETrafficMap(name, timeOk, x, y, ts, present) ==
    IF timeOk /\ name = "plain"
    THEN IF x \in Rows /\ y \in Rows
         THEN finishTrafficMap(x, y, ts, present)
         ELSE /\ raised' = TRUE
              /\ outcome' = "hereTileIndexError"
              /\ UNCHANGED <<trafficVars, aasFiles>>
    ELSE /\ raised' = FALSE
         /\ outcome' = "hereSkipped"
         /\ UNCHANGED <<trafficVars, aasFiles>>

\* The WEATHER branch: proccessHEREWeatherInfo(fileName, lat1, ...) and then
\* processHEREWeatherOverlay(fileName, timeStr).  The first takes the id from
\* ^.*WeatherImage_d_d_(.*).png and, on a change, sets id and position, makes
\* the base map, empties the list and runs the pass.  The second takes the id
\* from ^WeatherImage_d_d_(.*).png, leaves it unbound if the name does not
\* match (UnboundLocalError), and calls finishWeatherOverlay(..., True), whose
\* base image is TrafficMap.png: if that file is missing, makeBaseMap is
\* called and the open of TrafficMap.png fails inside the try block.
hereWeather(name, id, pos, ts, timeOk, present) ==
    LET found     == name \in {"plain", "prefixed"}
        changed   == found /\ (weatherID # id \/ weatherPos # pos)
        infoFails == changed /\ BaseMapRaises
        id1       == IF changed THEN id ELSE weatherID
        pos1      == IF changed THEN pos ELSE weatherPos
        bases1    == IF changed THEN BaseMapsAfter(id) ELSE baseMaps
        writes1   == IF changed THEN BaseMapWritesAfter(id) ELSE baseMapWrites
        list1     == IF changed THEN RefreshedList(wxMapFiles, <<>>, id, now)
                     ELSE weatherMaps
        files1    == IF changed THEN PrunedFiles(wxMapFiles, now)
                     ELSE wxMapFiles
        unbound   == timeOk /\ name # "plain"
        dup       == timeOk /\ name = "plain" /\ weatherTime = ts
        trafficMapThere == trafficMapWrites > 0
        makeBase  == ~trafficMapThere /\ mapFile
        bases2    == IF makeBase THEN bases1 \cup {id1} ELSE bases1
        writes2   == IF makeBase /\ id1 \notin bases1
                     THEN [writes1 EXCEPT ![id1] = @ + 1]
                     ELSE writes1
        ok        == trafficMapThere /\ present
        files2    == files1 \cup {WxMap(id, ts)}
    IN  /\ weatherID' = id1
        /\ weatherPos' = pos1
        /\ aasFiles' = aasFiles
        /\ IF infoFails
           THEN /\ raised' = TRUE
                /\ outcome' = "infoBaseMapRaised"
                /\ baseMaps' = bases1
                /\ baseMapWrites' = writes1
                /\ UNCHANGED <<weatherTime, weatherNow, weatherMaps, wxMapFiles,
                               wxMapWrites>>
           ELSE IF ~timeOk \/ unbound \/ dup
           THEN /\ raised' = unbound
                /\ outcome' = IF unbound THEN "hereIdUnbound"
                              ELSE IF dup THEN "overlayDuplicate"
                              ELSE "hereSkipped"
                /\ baseMaps' = bases1
                /\ baseMapWrites' = writes1
                /\ weatherMaps' = list1
                /\ wxMapFiles' = files1
                /\ UNCHANGED <<weatherTime, weatherNow, wxMapWrites>>
           ELSE /\ raised' = FALSE
                /\ outcome' = IF ok THEN "overlayComposited"
                              ELSE IF present THEN "overlayBaseFailed"
                              ELSE "overlayMoveFailed"
                /\ baseMaps' = bases2
                /\ baseMapWrites' = writes2
                /\ weatherTime' = IF ok THEN ts ELSE EmptyTs
                /\ wxMapWrites' = IF ok THEN wxMapWrites + 1 ELSE wxMapWrites
                /\ weatherNow' = IF ok THEN WxMap(id, ts) ELSE weatherNow
                /\ wxMapFiles' = IF ok THEN PrunedFiles(files2, now) ELSE files1
                /\ weatherMaps' = IF ok
                                  THEN RefreshedList(files2, list1, id1, now)
                                  ELSE list1

hereImage_shared(type, name, id, pos, x, y, ts, timeOk, present) ==
    CASE type = "WEATHER" ->
            /\ hereWeather(name, id, pos, ts, timeOk, present)
            /\ mapComplete' = FALSE
            /\ UNCHANGED <<mapTiles, tileFiles, trafficMapWrites>>
      [] type = "TRAFFIC" ->
            /\ processHERETrafficMap(name, timeOk, x, y, ts, present)
            /\ UNCHANGED weatherVars
      [] OTHER ->
            /\ raised' = FALSE
            /\ outcome' = "hereOther"
            /\ UNCHANGED <<trafficVars, weatherVars, aasFiles>>

\* lines 1637-1641: the branch of parseFeedback for regex[23]
hereImage(type, name, id, pos, x, y, ts, timeOk, present) ==
    CASE type = "WEATHER" ->
            /\ hereWeather(name, id, pos, ts, timeOk, present)
            /\ UNCHANGED trafficVars
      [] type = "TRAFFIC" ->
            /\ processHERETrafficMap(name, timeOk, x, y, ts, present)
            /\ UNCHANGED weatherVars
      [] OTHER ->
            /\ raised' = FALSE
            /\ outcome' = "hereOther"
            /\ UNCHANGED <<trafficVars, weatherVars, aasFiles>>

\* nrsc5 prints a "HERE Image" line of type TRAFFIC; the tiles are those of
\* the last row of the grid and one outside it
HereTraffic ==
    \E name \in {"plain", "other"}, y \in 0..GridSize, ts \in HereTimes,
       timeOk \in BOOLEAN, present \in BOOLEAN :
        /\ wxEvents < MaxWxEvents
        /\ wxEvents' = wxEvents + 1
        /\ hereImage("TRAFFIC", name, "A", 1, GridSize - 1, y, ts, timeOk,
                     present)
        /\ UNCHANGED <<tileEnvVars, mapFile, now, stationVars, settingVars,
                       lineEnvVars, sessionVars, statusVars, threadVars>>

\* nrsc5 prints a "HERE Image" line of type WEATHER
HereWeather ==
    \E name \in HereNames, pos \in Boxes, ts \in HereTimes,
       timeOk \in BOOLEAN, present \in BOOLEAN :
        /\ wxEvents < MaxWxEvents
        /\ wxEvents' = wxEvents + 1
        /\ hereImage("WEATHER", name, "A", pos, 0, 0, ts, timeOk, present)
        /\ UNCHANGED <<tileEnvVars, mapFile, now, stationVars, settingVars,
                       lineEnvVars, sessionVars, statusVars, threadVars>>

\* nrsc5 prints a "HERE Image" line of another type
HereOther ==
    /\ wxEvents < MaxWxEvents
    /\ wxEvents' = wxEvents + 1
    /\ hereImage("GENERIC", "other", "A", 1, 0, 0, 1, TRUE, TRUE)
    /\ UNCHANGED <<tileEnvVars, mapFile, now, stationVars, settingVars,
                   lineEnvVars, sessionVars, statusVars, threadVars>>

\* a session on an installation whose config.json gives back six tiles of the
\* current traffic map and no weather area
InitMaps ==
    /\ mapTiles = [c \in Cells |-> IF c \in SavedCells THEN 1 ELSE EmptyTs]
    /\ mapComplete = FALSE
    /\ tileFiles = SavedCells
    /\ trafficMapWrites = 0
    /\ InitWeather
    /\ InitStation
    /\ streamNum = 0
    /\ cbCoverIncl = TRUE
    /\ cbCovers = TRUE
    /\ aasFiles = {}
    /\ raised = FALSE
    /\ outcome = "none"
    /\ carouselTs = 1
    /\ upsets = 0
    /\ mapFile \in BOOLEAN
    /\ now = MaxTs
    /\ wxEvents = 0
    /\ InSession

NextMaps == LotAnnouncement \/ HereTraffic \/ HereWeather \/ HereOther

SpecMaps == InitMaps /\ [][NextMaps]_vars

\* ---- the data services of one session --------------------------------------
\* nrsc5 prints a "SIG Service: type=data" line; a session prints one for
\* every data service of the station
DataDeclared ==
    \E line \in {l \in SigLines : l.type = "data"} :
        /\ ReadLine(line)
        /\ UNCHANGED <<lineCount, sessionVars, statusVars, threadVars>>

NextServices == DataDeclared \/ DataComponentLine

SpecServices == InitSt /\ [][NextServices]_vars

\* ---- the XHDR line with its three fields -----------------------------------
\* regex[13] "XHDR: (.*) ([0-9A-Fa-f]{8}) (.*)": the tag, a field of eight
\* hex digits, and the text after it
XhdrLines == [xhdr : {"0", "1"}, mime : {"BE4B7536", "D9C72536"},
              lot : {"7", "-1"}]

\* the branch of parseFeedback: xhdr = group(1), mime = group(2), which is
\* not used, lot = group(3)
onXhdrLine(line) == onXhdr(line.xhdr, line.lot)

ReadXhdr(line) ==
    /\ onXhdrLine(line)
    /\ UNCHANGED <<trafficVars, tileEnvVars, weatherVars, wxEnvVars,
                   aasFiles, settingVars, lineEnvVars, sessionVars,
                   syncStatus, threadVars>>

\* the player thread reads an "XHDR" line
XhdrRead ==
    \E line \in XhdrLines :
        /\ playing
        /\ ReadXhdr(line)

\* getImageLot(imgStr): the digits before the first "_" of the file name
getImageLot(imgStr) == CASE imgStr = "7_a.jpg" -> "7"

\* update() of checkStatus shows the artwork the tag selects: the cover for
\* tag "0", whose LOT id must be the remembered one, else the logo (for tag
\* "1", or when an image was shown before).  The image differs from the one
\* on display and its file is there.
ArtworkShown ==
    /\ playing
    /\ xhdrChanged
    /\ IF lastXHDR = "0" /\ streamInfo.Cover # ""
       THEN lastLOT = getImageLot(streamInfo.Cover)
       ELSE streamInfo.Logo # ""
    /\ xhdrChanged' = FALSE
    /\ raised' = FALSE
    /\ outcome' = "artwork"
    /\ UNCHANGED <<trafficVars, tileEnvVars, weatherVars, wxEnvVars, aasFiles,
                   stationVars, settingVars, lineEnvVars, sessionVars,
                   syncStatus, lastXHDR, lastLOT, threadVars>>

NextXhdr ==
    \/ XhdrRead
    \/ ArtworkShown
    \/ TunedLot
    \/ ProgramSelected
    \/ StopClicked
    \/ PlayClicked

SpecXhdr == InitRouter /\ [][NextXhdr]_vars

\* ---- the loop of play() ------------------------------------------------------
\* the exit statuses of nrsc5: a normal end, an error, killed by the SIGTERM
\* of terminate()
ExitStatuses == {0, 1, -15}

playFrame == <<trafficVars, tileEnvVars, weatherVars, wxEnvVars, aasFiles,
               raised, outcome, stationVars, settingVars, lineEnvVars,
               sessionVars, statusVars, poll, refresh, viewer>>

\* Popen.poll(): None while the process runs, else its exit status; the
\* loop tests it for truth, and None and 0 are false
PollIsTrue(p) == p.proc = "exited" /\ p.status # 0

\* the thread on_btnPlay_clicked started runs play() up to its loop: Popen
PlayerLaunched ==
    /\ playing
    /\ player = NoPlayer
    /\ player' = [proc |-> "running", status |-> 0, loop |-> TRUE]
    /\ UNCHANGED playFrame

\* nrsc5 ends, by itself or by the terminate() of on_btnStop_clicked
ProcessExited ==
    \E status \in ExitStatuses :
        /\ player.proc = "running"
        /\ player' = [player EXCEPT !.proc = "exited", !.status = status]
        /\ UNCHANGED playFrame

\* a pass of the loop while nrsc5 runs: a line is read and parsed, poll() is
\* None.  The line is a "LOT file" line
PlayLine ==
    /\ player.loop
    /\ player.proc = "running"
    /\ LotLine

\* the same pass for one of the three lines on the synchronization
PlaySync ==
    \E text \in SyncLines :
        /\ player.loop
        /\ player.proc = "running"
        /\ onSyncLine(text)
        /\ UNCHANGED <<trafficVars, tileEnvVars, weatherVars, wxEnvVars,
                       aasFiles, stationVars, settingVars, lineEnvVars,
                       sessionVars, lastXHDR, lastLOT, xhdrChanged,
                       threadVars>>

\* a pass of the loop after nrsc5 has ended: readline() returns "" at the
\* end of the stream, which no pattern matches, then the two tests of poll()
LoopCheck ==
    /\ player.loop
    /\ player.proc = "exited"
    /\ player' = IF PollIsTrue(player) /\ ~playing THEN NoPlayer
                 ELSE IF PollIsTrue(player) /\ playing
                      THEN [proc |-> "running", status |-> 0, loop |-> TRUE]
                      ELSE player
    /\ UNCHANGED playFrame

NextPlay ==
    \/ PlayerLaunched
    \/ PlayLine
    \/ PlaySync
    \/ ProcessExited
    \/ LoopCheck
    \/ StopClicked

SpecPlay == InitRouter /\ [][NextPlay]_vars

\* the thread of play() is scheduled as long as it is in its loop
SpecPlayFair == SpecPlay /\ WF_vars(LoopCheck)

\* ---- the map viewer ------------------------------------------------------------
\* The fields of the NRSC5_Map object.  shared: self.weatherMaps is the list
\* object the main window's self.weatherMaps names; maps: its entries when
\* it is not.  timer: animateTimer is None ("none"), a started timer that
\* has not fired ("armed"), or one that has fired or was cancelled
\* ("spent").  pc, file: the position of the timer thread in animate() and
\* the fileName it has picked.  notify: the player thread is between
\* proccessWeatherMaps() and updated(1) in finishWeatherOverlay.  closing:
\* on_mapWindow_delete is in its wait loop.
OpenViewer(mode, animate) ==
    [open |-> TRUE, shared |-> TRUE, maps |-> <<>>, mapIndex |-> 0,
     mode |-> mode, animate |-> animate,
     timer |-> IF animate /\ mode = 1 THEN "armed" ELSE "none",
     busy |-> FALSE, stop |-> FALSE, pc |-> "idle", file |-> NoMap,
     notify |-> FALSE, closing |-> FALSE]

\* the list self.weatherMaps of the viewer
ViewerMaps == IF viewer.shared THEN weatherMaps ELSE viewer.maps

\* list[i] of Python: an index from -len to len-1 is valid, a negative one
\* counts from the end
ValidIndex(i, n) == -n <= i /\ i < n
PyIndex(list, i) == IF i >= 0 THEN list[i + 1] ELSE list[Len(list) + i + 1]

viewerFrame == <<trafficVars, tileEnvVars, weatherVars, wxEnvVars, aasFiles,
                 stationVars, settingVars, lineEnvVars, sessionVars,
                 statusVars, poll, refresh, player>>

\* on_btnMap_clicked: NRSC5_Map.__init__ with the saved mode and animate
\* setting; chkAnimate.set_active(True) runs on_chkAnimate_toggled
ViewerOpened ==
    \E mode \in {0, 1}, animate \in BOOLEAN :
        /\ ~viewer.open
        /\ viewer' = OpenViewer(mode, animate)
        /\ UNCHANGED <<viewerFrame, raised, outcome>>

\* the player thread composites an overlay of the area on display:
\* finishWeatherOverlay up to the return of proccessWeatherMaps()
ViewerOverlay ==
    \E ts \in Times :
        /\ wxEvents < MaxWxEvents
        /\ wxEvents' = wxEvents + 1
        /\ ~viewer.notify
        /\ processWeatherOverlay(weatherID, ts, TRUE)
        /\ viewer' = [viewer EXCEPT
                        !.notify = viewer.open /\ outcome' = "overlayComposited"]
        /\ UNCHANGED <<trafficVars, tileEnvVars, mapFile, now, stationVars,
                       settingVars, lineEnvVars, sessionVars, statusVars,
                       poll, refresh, player>>

\* updated(1), the next statement of finishWeatherOverlay
ViewerUpdated ==
    /\ viewer.notify
    /\ viewer' = [viewer EXCEPT
                    !.notify = FALSE,
                    !.mapIndex = IF viewer.mode = 1
                                 THEN Len(ViewerMaps) - 1 ELSE @]
    /\ UNCHANGED <<viewerFrame, raised, outcome>>

\* the player thread reads a metadata file: proccessWeatherInfo; on a change
\* "self.weatherMaps = []" makes the main window's name a new list, the
\* viewer keeps the old one
ViewerInfo ==
    \E id \in IDs :
        /\ wxEvents < MaxWxEvents
        /\ wxEvents' = wxEvents + 1
        /\ ~viewer.notify
        /\ proccessWeatherInfo(TRUE, id, 1)
        /\ viewer' = IF viewer.open /\ viewer.shared /\ outcome' = "infoChanged"
                     THEN [viewer EXCEPT !.shared = FALSE, !.maps = weatherMaps]
                     ELSE viewer
        /\ UNCHANGED <<trafficVars, tileEnvVars, mapFile, now, stationVars,
                       settingVars, lineEnvVars, sessionVars, statusVars,
                       poll, refresh, player>>

\* the timer fires: animate() up to "self.animateBusy = True".  The file
\* name is weatherMaps[mapIndex] unless the list is empty; without the file
\* chkAnimate.set_active(False) runs on_chkAnimate_toggled if the box was
\* checked, then mapIndex = 0
AnimateStart ==
    LET list == ViewerMaps
        n == Len(list)
        i == viewer.mapIndex
    IN  /\ viewer.timer = "armed"
        /\ viewer.pc = "idle"
        /\ IF n > 0 /\ ~ValidIndex(i, n)
           THEN /\ viewer' = [viewer EXCEPT !.timer = "spent"]
                /\ raised' = TRUE
                /\ outcome' = "animateIndexError"
           ELSE LET fileName == IF n = 0 THEN NoMap ELSE PyIndex(list, i)
                IN  IF fileName \in wxMapFiles
                    THEN /\ viewer' = [viewer EXCEPT !.timer = "spent",
                                                     !.busy = TRUE,
                                                     !.pc = "opening",
                                                     !.file = fileName]
                         /\ raised' = FALSE
                         /\ outcome' = "animateBusy"
                    ELSE /\ viewer' = [viewer EXCEPT
                                         !.timer = IF viewer.animate
                                                   THEN "none" ELSE "spent",
                                         !.animate = FALSE,
                                         !.mapIndex = 0]
                         /\ raised' = FALSE
                         /\ outcome' = "animateNoFile"
        /\ UNCHANGED viewerFrame

\* the rest of animate(): Image.open of the file picked, which raises when
\* the file is gone; then the image is shown, the index advanced and the
\* next timer started, or the timer cleared; animateBusy = False
AnimateFinish ==
    LET n == Len(ViewerMaps)
        next == viewer.mapIndex + 1
    IN  /\ viewer.pc = "opening"
        /\ IF viewer.file \notin wxMapFiles
           THEN /\ viewer' = [viewer EXCEPT !.pc = "idle"]
                /\ raised' = TRUE
                /\ outcome' = "animateOpenFailed"
           ELSE /\ viewer' =
                     IF viewer.animate /\ viewer.mode = 1 /\ ~viewer.stop
                     THEN [viewer EXCEPT !.mapIndex = IF next >= n THEN 0 ELSE next,
                                         !.timer = "armed",
                                         !.busy = FALSE,
                                         !.pc = "idle"]
                     ELSE [viewer EXCEPT !.timer = "none",
                                         !.busy = FALSE,
                                         !.pc = "idle"]
                /\ raised' = FALSE
                /\ outcome' = "animated"
        /\ UNCHANGED viewerFrame

\* on_radMap_toggled for the button that became active
ModeToggled ==
    \E mode \in {0, 1} :
        /\ viewer.open
        /\ ~viewer.closing
        /\ mode # viewer.mode
        /\ viewer' = [viewer EXCEPT
                        !.mode = mode,
                        !.timer = IF mode = 0 THEN "none"
                                  ELSE IF viewer.animate /\ @ = "none"
                                       THEN "armed" ELSE @]
        /\ UNCHANGED <<viewerFrame, raised, outcome>>

\* on_chkAnimate_toggled
AnimateToggled ==
    /\ viewer.open
    /\ ~viewer.closing
    /\ viewer' = IF ~viewer.animate /\ viewer.mode = 1
                 THEN [viewer EXCEPT !.animate = TRUE, !.timer = "armed"]
                 ELSE [viewer EXCEPT !.animate = ~@,
                                     !.timer = "none",
                                     !.mapIndex = Len(ViewerMaps) - 1]
    /\ UNCHANGED <<viewerFrame, raised, outcome>>

\* on_mapWindow_delete up to its wait loop: a timer that is set is cancelled
\* and the stop flag raised
CloseRequested ==
    /\ viewer.open
    /\ ~viewer.closing
    /\ viewer' = IF viewer.timer # "none"
                 THEN [viewer EXCEPT !.timer = "spent", !.stop = TRUE,
                                     !.closing = TRUE]
                 ELSE [viewer EXCEPT !.closing = TRUE]
    /\ UNCHANGED <<viewerFrame, raised, outcome>>

\* the wait loop has seen animateBusy false: the callback clears
\* self.mapViewer
CloseDone ==
    /\ viewer.closing
    /\ ~viewer.busy
    /\ viewer' = NoViewer
    /\ UNCHANGED <<viewerFrame, raised, outcome>>

InitViewer ==
    /\ InitTraffic
    /\ InitStation
    /\ weatherID = "A"
    /\ weatherPos = 1
    /\ weatherTime = 1
    /\ weatherNow = WxMap("A", 1)
    /\ weatherMaps = <<WxMap("A", 1)>>
    /\ wxMapFiles = {WxMap("A", 1)}
    /\ baseMaps = {"A"}
    /\ wxMapWrites = 1
    /\ baseMapWrites = [id \in IDs |-> IF id = "A" THEN 1 ELSE 0]
    /\ streamNum = 0
    /\ cbCoverIncl = TRUE
    /\ cbCovers = TRUE
    /\ aasFiles = {}
    /\ raised = FALSE
    /\ outcome = "overlayComposited"
    /\ carouselTs = 1
    /\ upsets = 0
    /\ mapFile = TRUE
    /\ now = MaxTs
    /\ wxEvents = 2
    /\ InSession

NextViewer ==
    \/ ViewerOpened
    \/ ViewerOverlay
    \/ ViewerUpdated
    \/ ViewerInfo
    \/ AnimateStart
    \/ AnimateFinish
    \/ ModeToggled
    \/ AnimateToggled
    \/ CloseRequested
    \/ CloseDone
    \/ Tick

SpecViewer == InitViewer /\ [][NextViewer]_vars

\* the timer thread runs animate() to its end once it has started it
SpecViewerFair == SpecViewer /\ WF_vars(AnimateFinish) /\ WF_vars(CloseDone)

\* ---- claims on the traffic tile assembler --------------------------------

CellsHolding(t) == {c \in Cells : mapTiles[c] = t}

\* C1: in every reachable state mapComplete is true if and only if all nine
\* cells of mapTiles hold the same non-zero timestamp (so with eight of the
\* nine cells at T it is false).
C1_CompleteIffAllEqual ==
    mapComplete <=> (\E t \in Times : \A c \in Cells : mapTiles[c] = t)

\* a complete map has been stitched after upsets (another timestamp, a
\* failed move or a duplicate) happened on the way
C1_Witness ==
    /\ mapComplete
    /\ upsets > 0
    /\ outcome = "stitched"

\* C2: from the empty grid, the nine tiles of one timestamp T fed in any
\* order give exactly one write of TrafficMap.png, on the ninth tile, and
\* leave no per-cell cache file.
C2_NineTilesOneWrite ==
    upsets = 0 =>
        /\ trafficMapWrites =
              (IF Cardinality(CellsHolding(carouselTs)) = GridSize * GridSize
               THEN 1 ELSE 0)
        /\ CellsHolding(carouselTs) = Cells => (tileFiles = {} /\ ~raised)
        /\ CellsHolding(carouselTs) # Cells => tileFiles = CellsHolding(carouselTs)

C2_Witness ==
    /\ upsets = 0
    /\ CellsHolding(carouselTs) = Cells
    /\ trafficMapWrites = 1
    /\ tileFiles = {}

\* C3: a tile for a cell that already holds exactly that timestamp is a
\* no-op: the raw file is gone afterwards, mapTiles, mapComplete, the cell
\* cache files and TrafficMap.png are untouched and nothing is raised, also
\* when the raw file was not there.
C3_DuplicateTileNoOp ==
    [][\A x \in Rows, y \in Rows, ts \in Times, present \in BOOLEAN :
         (mapTiles[<<x, y>>] = ts /\ finishTrafficMap(x, y, ts, present)) =>
            /\ UNCHANGED trafficVars
            /\ TileName(x, y, ts) \notin aasFiles'
            /\ ~raised']_vars

C3_Witness == outcome = "tileDuplicateGone" /\ mapComplete
\* ---- claims on the weather compositor ------------------------------------

\* the composite of an overlay succeeds: the raw file is there and the base
\* map is there or can be made
CompositeCanSucceed(id, src) ==
    src /\ (id \in baseMaps \/ mapFile)

\* C4: an overlay for the current weatherID at timestamp T1 is composited
\* with one write of WeatherMap_<id>_<T1>.png, and a second overlay for the
\* same id and timestamp writes nothing: its raw file is deleted, weatherTime,
\* weatherNow and weatherMaps stay as they are and nothing is raised.
C4_DuplicateOverlayOneComposite ==
    [][\A eid \in IDs, ts \in Times, present \in BOOLEAN :
         (eid = weatherID /\ processWeatherOverlay(eid, ts, present)) =>
            /\ (weatherTime # ts /\ CompositeCanSucceed(eid, present)) =>
                  /\ wxMapWrites' = wxMapWrites + 1
                  /\ weatherTime' = ts
                  /\ weatherNow' = WxMap(eid, ts)
            /\ weatherTime = ts =>
                  /\ UNCHANGED <<weatherTime, weatherNow, weatherMaps,
                                 wxMapWrites, wxMapFiles>>
                  /\ OverlayName(eid, ts) \notin aasFiles'
                  /\ ~raised']_vars

C4_Witness ==
    /\ outcome = "overlayDuplicate"
    /\ wxMapWrites = 1
    /\ weatherNow = WxMap(weatherID, weatherTime)
    /\ weatherMaps = <<weatherNow>>

\* C5: an overlay whose embedded id differs from weatherID (weatherID empty
\* included) leaves weatherTime, weatherNow, weatherID, weatherPos and
\* weatherMaps unchanged and writes no composite.
C5_ForeignOverlayFrame ==
    [][\A eid \in IDs, ts \in Times, present \in BOOLEAN :
         (eid # weatherID /\ processWeatherOverlay(eid, ts, present)) =>
            UNCHANGED <<weatherTime, weatherNow, weatherID, weatherPos,
                        weatherMaps, wxMapWrites, wxMapFiles>>]_vars

C5_Witness ==
    /\ outcome = "overlayWrongId"
    /\ weatherTime # EmptyTs
    /\ weatherMaps # <<>>

\* C6: an overlay rejected for its id (mismatch, or no weatherID yet) has
\* its raw file removed from the intake directory.
C6_RejectedOverlayDiscarded ==
    [][\A eid \in IDs, ts \in Times, present \in BOOLEAN :
         (eid # weatherID /\ processWeatherOverlay(eid, ts, present)) =>
            OverlayName(eid, ts) \notin aasFiles']_vars
\* ---- claims on the port/service resolver and the asset router ------------

\* the most recent declaration is an audio declaration with a slot number
\* in 1..8
ValidAudioDeclared ==
    lastDecl.type = "audio" /\ lastDecl.number \in 1..NumSlots

\* C7: after an audio SIG Service line with slot number s in 1..8, every
\* port-assigned line read before the next declaration appends its port to
\* the port list of slot s-1, in arrival order, and changes no other list.
C7_PortsAppendedInOrder ==
    [][\A line \in DataComponentLines :
         (ValidAudioDeclared /\ ReadLine(line)) =>
            streams' = [streams EXCEPT ![lastDecl.number - 1] =
                                           Append(@, PortOf(line.port))]]_vars

\* C7, for the port fields made of decimal digits only, where the pattern
\* takes the whole field
C7_DecimalPortsAppended ==
    [][\A line \in DataComponentLines :
         (ValidAudioDeclared /\ MatchesLot(line.port) /\ ReadLine(line)) =>
            streams' = [streams EXCEPT ![lastDecl.number - 1] =
                                           Append(@, PortOf(line.port))]]_vars

\* C8: a port-assigned line read while the last declaration is of type
\* audio changes no SvcTypes entry; SvcTypes changes only while the last
\* declaration is of type data, only by a port line with id 0, and only at
\* index numServices-1.
C8_SvcTypesOnlyForData ==
    [][/\ lastDecl.type = "audio" =>
             streamInfo'.SvcTypes = streamInfo.SvcTypes
       /\ streamInfo'.SvcTypes # streamInfo.SvcTypes =>
             /\ lastDecl.type = "data"
             /\ numServices >= 1
             /\ \A i \in SvcIdx \ {numServices - 1} :
                   streamInfo'.SvcTypes[i] = streamInfo.SvcTypes[i]
             /\ \A line \in SigLines \cup DataComponentLines \cup LotLines :
                   ReadLine(line) => (line.kind = "DC" /\ line.id = 0)]_vars

\* a port line was read under an audio declaration while a data service is
\* declared, and a type was recorded for a data service only
C8_Witness ==
    /\ outcome = "dataComponent"
    /\ lastType = "audio"
    /\ numServices = 1
    /\ streamInfo.SvcTypes[0] = "Weather"
    /\ streams[numStreams - 1] # <<>>

\* C9: the first port recorded for a slot resolves as cover of a slot that
\* holds it at position 0, the second (when it is no slot's first port) as
\* logo of a slot that holds it at position 1, and a recorded port at
\* neither position of any slot resolves to neither.
FirstPorts == {streams[i][1] : i \in {j \in Slots : Len(streams[j]) >= 1}}
SecondPorts == {streams[i][2] : i \in {j \in Slots : Len(streams[j]) >= 2}}
RecordedPorts == UNION {{streams[i][k] : k \in 1..Len(streams[i])} : i \in Slots}

C9_FirstTwoPortsResolve ==
    /\ \A p \in FirstPorts :
          LET c == checkPorts(streams, p, 0)
          IN  c \in Slots /\ Len(streams[c]) >= 1 /\ streams[c][1] = p
    /\ \A p \in SecondPorts \ FirstPorts :
          LET l == checkPorts(streams, p, 1)
          IN  l \in Slots /\ Len(streams[l]) >= 2 /\ streams[l][2] = p
    /\ \A p \in RecordedPorts \ (FirstPorts \cup SecondPorts) :
          checkPorts(streams, p, 0) = NoSlot /\ checkPorts(streams, p, 1) = NoSlot

\* C9, for the slots that checkPorts searches: it holds as long as slot 7
\* has no port
C9_SearchedSlotsResolve ==
    streams[NumSlots - 1] = <<>> => C9_FirstTwoPortsResolve

\* C10 as claimed: Cover is set to the file name only for a port that
\* resolves as cover of the tuned slot with the toggle allowing it; a port
\* that resolves as logo of slot k has the name recorded in the registry
\* for k, tuned or not; Logo is set only if k is the tuned slot.
C10_LogoAlwaysRecorded ==
    [][\A line \in LotLines :
         (MatchesLot(line.port) /\ ReadLine(line)) =>
            LET p == HexVal(line.port)
                cover == checkPorts(streams, p, 0)
                logo == checkPorts(streams, p, 1)
            IN  /\ streamInfo'.Cover # streamInfo.Cover =>
                      /\ streamInfo'.Cover = line.name
                      /\ cover = streamNum
                      /\ cbCoverIncl \/ ~cbCovers
                /\ logo # NoSlot => stationLogos'[logo] = line.name
                /\ streamInfo'.Logo # streamInfo.Logo =>
                      /\ streamInfo'.Logo = line.name
                      /\ logo = streamNum]_vars

\* C10 as amended: the same, the registry and Logo being written for a port
\* that resolves as logo of slot k and does not resolve as cover of a slot.
C10_LogoRecordedUnlessCover ==
    [][\A line \in LotLines :
         (MatchesLot(line.port) /\ ReadLine(line)) =>
            LET p == HexVal(line.port)
                cover == checkPorts(streams, p, 0)
                logo == checkPorts(streams, p, 1)
            IN  /\ streamInfo'.Cover # streamInfo.Cover =>
                      /\ streamInfo'.Cover = line.name
                      /\ cover = streamNum
                      /\ cbCoverIncl \/ ~cbCovers
                /\ (cover = NoSlot /\ logo # NoSlot) =>
                      stationLogos'[logo] = line.name
                /\ streamInfo'.Logo # streamInfo.Logo =>
                      /\ streamInfo'.Logo = line.name
                      /\ cover = NoSlot
                      /\ logo = streamNum]_vars

\* a logo was recorded for a slot that is not the tuned one, Logo staying
\* empty, and a cover was set for the tuned slot
C10_Witness ==
    /\ outcome = "lotLogo"
    /\ \E k \in Slots : k # streamNum /\ stationLogos[k] # ""
    /\ streamInfo.Logo = ""

\* ---- claims on the asset router ------------------------------------------
MarkerFiles == {TileFile, OverlayFile, InfoFile}

\* the port of the line resolves as cover or as logo of a slot
Resolves(line) ==
    \/ checkPorts(streams, HexVal(line.port), 0) > NoSlot
    \/ checkPorts(streams, HexVal(line.port), 1) > NoSlot

\* C11: a file announcement whose port resolves as cover or as logo changes
\* neither the traffic state nor the weather state and caches, also when
\* its name carries the DWRO_, TMT_ or DWRI_ marker; so a map subsystem is
\* reached only by a port that resolves to neither.
C11_DispatchOnlyUnresolved ==
    [][\A line \in Announcements, present \in BOOLEAN :
         (/\ MatchesLot(line.port)
          /\ Resolves(line)
          /\ ReadAnnouncement(line, present)) =>
            UNCHANGED <<trafficVars, weatherVars>>]_vars

\* a file with a map marker came on the cover port and became the cover,
\* the map state being as it was at the start
C11_Witness ==
    /\ outcome = "lotCover"
    /\ streamInfo.Cover \in MarkerFiles
    /\ weatherID = NoID
    /\ \A c \in Cells : mapTiles[c] = EmptyTs

\* C12: an announcement of a file that is not in the intake directory
\* leaves Cover, Logo, the logo registry and the map subsystems unchanged.
C12_MissingFileSkipped ==
    [][\A line \in Announcements :
         (/\ MatchesLot(line.port)
          /\ RawFile(line.name) \notin aasFiles
          /\ ReadAnnouncement(line, FALSE)) =>
            /\ streamInfo'.Cover = streamInfo.Cover
            /\ streamInfo'.Logo = streamInfo.Logo
            /\ UNCHANGED <<stationLogos, trafficVars, weatherVars>>]_vars

\* ---- claims on failures of the map assembly --------------------------------

\* C13: a tile arrival never raises out of finishTrafficMap, and a tile
\* whose move fails leaves its grid cell at 0.
C13_AssemblyFailureCaught ==
    [][\A x \in Rows, y \in Rows, ts \in Times, present \in BOOLEAN :
         finishTrafficMap(x, y, ts, present) =>
            /\ ~raised'
            /\ outcome' = "tileMoveFailed" => mapTiles'[<<x, y>>] = EmptyTs]_vars

\* C13, the overlay half: an overlay arrival never raises out of
\* finishWeatherOverlay, and a failed move, composite or save leaves
\* weatherTime at 0.
C13_OverlayFailureCaught ==
    [][\A eid \in IDs, ts \in Times, present \in BOOLEAN :
         processWeatherOverlay(eid, ts, present) =>
            /\ ~raised'
            /\ outcome' \in {"overlayMoveFailed", "overlayBaseFailed"} =>
                  weatherTime' = EmptyTs]_vars

\* ---- claims on the weather map cache ---------------------------------------

\* a step in which proccessWeatherMaps() ran: an overlay was composited or
\* the metadata changed
RefreshPass ==
    /\ wxEvents' = wxEvents + 1
    /\ outcome' \in {"overlayComposited", "infoChanged"}

C15_ListOrderedNoDuplicates ==
    [][RefreshPass =>
         \A i, j \in 1..Len(weatherMaps') :
            i < j => /\ weatherMaps'[i] # weatherMaps'[j]
                     /\ weatherMaps'[i].ts <= weatherMaps'[j].ts]_vars

\* C15, the half that holds: no entry is in weatherMaps twice
C15_NoDuplicates ==
    \A i, j \in 1..Len(weatherMaps) : i < j => weatherMaps[i] # weatherMaps[j]

\* ---- claims on the weather metadata ----------------------------------------

\* what a metadata file with id and box does: the stored pair is replaced,
\* the list is rebuilt from the maps of the new id, the base map of the new
\* id is there; or, for the stored pair, nothing changes
MetadataApplied(id, pos) ==
    IF weatherID # id \/ weatherPos # pos
    THEN /\ weatherID' = id
         /\ weatherPos' = pos
         /\ \A i \in 1..Len(weatherMaps') : weatherMaps'[i].id = id
         /\ \A f \in wxMapFiles' : f.id = id => InSeq(f, weatherMaps')
         /\ id \in baseMaps'
    ELSE UNCHANGED weatherVars

\* C16: a metadata file whose id or bounding box differs from the stored
\* values replaces both, rebuilds weatherMaps from the maps of the new id
\* and leaves a base map of the new id; one that repeats the stored values
\* changes nothing.
C16_MetadataReplaces ==
    [][\A id \in IDs, pos \in Boxes :
         proccessWeatherInfo(TRUE, id, pos) => MetadataApplied(id, pos)]_vars

\* C16, with the reference map in place
C16_WithReferenceMap ==
    [][\A id \in IDs, pos \in Boxes :
         (mapFile /\ proccessWeatherInfo(TRUE, id, pos)) =>
            MetadataApplied(id, pos)]_vars

C17_KeptMapUntouched ==
    ~mapFile => \A id \in IDs : baseMapWrites[id] = 0

\* the text lacks a well-formed area id line or a well-formed coordinates
\* line: the field is absent, or written so that its pattern fails
Defective(text) ==
    \/ ~\E i \in 1..Len(text), id \in IDs : text[i] = IdLineOf[id]
    \/ ~\E i \in 1..Len(text), pos \in Boxes : text[i] = CoordLineOf[pos]

\* C18: a metadata file whose area id or coordinates are absent or malformed
\* leaves weatherID, weatherPos, weatherMaps and the base maps as they were
\* and raises nothing: a step that changes one of them or raises is not the
\* handling of such a file.
C18_DefectiveMetadataSkipped ==
    [][(raised' \/ <<weatherID, weatherPos, weatherMaps, baseMaps>>'
                   # <<weatherID, weatherPos, weatherMaps, baseMaps>>) =>
          \A text \in InfoTexts :
             Defective(text) => ~proccessWeatherInfoFile(TRUE, text)]_vars

\* a defective file was read after an area had been set and a map listed
C18_Witness ==
    /\ outcome = "infoSkipped"
    /\ weatherID = "A"
    /\ weatherPos = 2
    /\ weatherMaps # <<>>
    /\ "A" \in baseMaps

\* ---- claims on tune sessions ------------------------------------------------
MapState == <<mapTiles, mapComplete, weatherID, weatherPos, weatherTime,
              weatherNow>>

\* C19: stopping a tune session (Stop, or the reset after "Open device
\* failed") and starting the next one leave mapTiles, mapComplete,
\* weatherID, weatherPos, weatherTime and weatherNow as they were, so the
\* tiles collected before count towards completion afterwards.
C19_SessionsKeepMapState ==
    [][playing' # playing => UNCHANGED MapState]_vars

\* the second session has read one line, a tile, and it completed the map
\* with the tiles that were there before the restart
C19_Witness ==
    /\ sessions = 2
    /\ playing
    /\ lineCount = 1
    /\ outcome = "stitched"
    /\ mapComplete
    /\ trafficMapWrites = 1
    /\ weatherNow = WxMap("A", 1)

FreshStation ==
    /\ streamInfo = DefaultStreamInfo
    /\ \A i \in Slots : streams[i] = <<>>
    /\ numStreams = 0
    /\ numServices = 0
    /\ lastType = NoType

\* C20: after a tune-stop every streamInfo field has its default, every
\* slot's port list is empty and numStreams, numServices and lastType are
\* reset, so that the next session starts from nothing the previous one
\* recorded: while no session is playing the station state is fresh.
C20_FreshUntilNextSession ==
    ~playing => FreshStation

\* C20, the step of the stop itself: on_btnStop_clicked and the reset after
\* "Open device failed" leave the station state fresh
C20_StopResets ==
    [][(playing /\ ~playing') => FreshStation']_vars

\* ---- claims on the synchronisation status ------------------------------------
\* set_synchronization knows three states; "Open device failed" shows the
\* same state as "Lost device"
NoDevice == LostDevice

\* C21: the sync status changes only by processing one of the four
\* sync-related lines, no other line and no other operation changes it, and
\* after such a line the status is the one the line names.
C21_SyncOnlyBySyncLines ==
    [][/\ syncStatus' # syncStatus => (SyncLine \/ DeviceFailed)
       /\ \A text \in SyncLines :
             (outcome' = text /\ SyncLine) => syncStatus' = StatusOfLine(text)
       /\ DeviceFailed => syncStatus' = NoDevice]_vars

\* C21, the lines alone: each of the four lines leaves the status it names
C21_LinesSetNamedStatus ==
    [][/\ \A text \in SyncLines :
             (outcome' = text /\ SyncLine) => syncStatus' = StatusOfLine(text)
       /\ DeviceFailed => syncStatus' = NoDevice]_vars

\* C22: "Open device failed" while playing stops playback: afterwards
\* playing is false, the station state and the port table are reset, and
\* the status shows the device failure, not the Unsynced of the reset.
C22_DeviceFailureStops ==
    [][DeviceFailed =>
          /\ ~playing'
          /\ streamInfo' = DefaultStreamInfo
          /\ \A i \in Slots : streams'[i] = <<>>
          /\ numStreams' = 0
          /\ numServices' = 0
          /\ lastType' = NoType
          /\ syncStatus' = NoDevice
          /\ syncStatus' # Unsynced]_vars

\* the failure came in a session that had read a declaration and a second
\* line, and the reset took their traces away
C22_Witness ==
    /\ outcome = "deviceFailed"
    /\ ~playing
    /\ syncStatus = LostDevice
    /\ lastDecl.type = "audio"
    /\ lineCount >= 2
    /\ streamInfo = DefaultStreamInfo

\* ---- claims on the line classifier -------------------------------------------
\* a file announcement or a port line whose port field does not fit the
\* digits its pattern asks for: no pattern of the chain matches the line
NoPatternMatches(line) ==
    \/ line.kind = "LOT" /\ \E i \in 1..Len(line.port) : ~IsDec(line.port[i])
    \/ line.kind = "DC" /\ (line.port = <<>> \/ ~IsDec(line.port[1]))

\* C23: a line that matches none of the patterns leaves the station state,
\* the port table, the XHDR tracking, MapState and the weather caches
\* unchanged and raises nothing: a step that changes one of them or raises
\* is not the reading of such a line.
C23_UnmatchedLineIgnored ==
    [][(raised' \/ <<stationVars, statusVars, trafficVars, weatherVars>>'
                   # <<stationVars, statusVars, trafficVars, weatherVars>>) =>
          \A line \in LotLines \cup DataComponentLines :
             NoPatternMatches(line) => ~ReadLine(line)]_vars

\* an announcement with a hexadecimal port was read after a port had been
\* recorded for the tuned slot
C23_Witness ==
    /\ outcome = "unmatched"
    /\ ~raised
    /\ streams[0] # <<>>
    /\ streamInfo.Streams[0] # ""

\* C25: a port or audio-component line whose type code is not a key of its
\* lookup table leaves the type field it addresses as it was: a step that
\* changes SvcTypes is not the reading of a line with an unknown code.
C25_UnknownCodeKeepsType ==
    [][streamInfo'.SvcTypes # streamInfo.SvcTypes =>
          \A line \in DataComponentLines :
             line.sdt \notin DOMAIN ServiceDataType => ~ReadLine(line)]_vars

\* C25, the known codes: a step that changes SvcTypes writes the name the
\* table holds for the line's code, or None
C25_TypeNameOrNone ==
    [][\A i \in SvcIdx :
          streamInfo'.SvcTypes[i] # streamInfo.SvcTypes[i] =>
             \/ streamInfo'.SvcTypes[i] = PyNone
             \/ \E k \in DOMAIN ServiceDataType :
                   streamInfo'.SvcTypes[i] = ServiceDataType[k]]_vars

\* the first pattern of the chain that matches the line
FirstPattern(line) ==
    LET hits == {i \in 1..Len(Chain) : Matches(Chain[i], line)}
    IN  IF hits = {} THEN NoPattern
        ELSE Chain[CHOOSE i \in hits : \A j \in hits : i <= j]

\* C24: for every line, parseFeedback applies the handler of the first
\* pattern of its chain that matches the line and the handler of no other
\* pattern, also when the line matches several patterns; the HERE Image
\* pattern (23) is tried before the LOT file pattern (7)
C24_FirstMatchOnly ==
    [][/\ \A line \in TextLines :
             ReadText(line) => HandlerOf(FirstPattern(line), line)
       /\ ChainIndex(23) < ChainIndex(7)]_vars

\* a title whose text holds a data component phrase was read after an audio
\* declaration: the title is stored and no port is recorded
C24_Witness ==
    /\ outcome = "Title"
    /\ \E tail \in Tails : tail.dc /\ streamInfo.Title = tail.s
    /\ lastType = "audio"
    /\ numStreams > 0
    /\ streams[numStreams - 1] = <<>>

\* ---- claims on the threads ---------------------------------------------------
\* C26: the poll never observes a partially updated record: the four BER
\* values a poll has read are the four values of one write (of a "BER:" line or
\* of initStreamInfo), and so are the two MER values
C26_PollReadsOneWrite ==
    /\ Len(poll.ber) = 4 =>
          \E b \in BerValues \cup {DefaultStreamInfo.BER} :
              poll.ber = [i \in 1..4 |-> b[i] * 100]
    /\ Len(poll.mer) = 2 => poll.mer \in MerValues \cup {DefaultStreamInfo.MER}

\* C27: at every moment at most one player thread is alive and drives
\* parseFeedback, for every sequence of play, stop and bookmark-activation
\* events: no session runs while the thread of an earlier one lingers
C27_OneProducer == ~(playing /\ lingering)

\* the retained files: the composites of the area on display in mapDir
Retained == {f \in wxMapFiles : f.id = weatherID}
Occurrences(list, f) == Cardinality({i \in 1..Len(list) : list[i] = f})

\* C28: proccessWeatherMaps is safely re-entrant: when a second pass starts
\* before the first has finished, neither pass raises, and once both are over
\* the weatherMaps list holds each retained file exactly once
C28_ReentrantPass ==
    /\ ~raised
    /\ (\A p \in Threads : refresh[p].pc = "done") =>
          \A f \in Retained : Occurrences(weatherMaps, f) = 1

\* C28, supporting: no pass raises, and a pass deletes no file that is
\* within the 12-hour window
C28_NoRaiseNoEarlyDelete ==
    [][/\ ~raised'
       /\ \A f \in wxMapFiles \ wxMapFiles' : TooOld(f, now)]_vars

\* ---- claims on the stream switch ------------------------------------------------
\* the now-playing fields but the logo are blank
NowPlayingCleared(info) ==
    /\ info.Title = ""
    /\ info.Artist = ""
    /\ info.Album = ""
    /\ info.Genre = ""
    /\ info.Cover = ""
    /\ info.Bitrate = 0

\* what a stream switch leaves alone: the PortTable, the stream and service
\* names, the current-slot pointer and MapState
SwitchFrame == <<streams, streamInfo.Streams, streamInfo.Programs,
                 streamInfo.Services, streamInfo.SvcTypes, numStreams,
                 numServices, lastType, MapState>>

\* C29 as stated: a stream switch resets Title, Artist, Album, Genre, Cover,
\* Logo and Bitrate and the XHDR tracking, and leaves the PortTable, the names,
\* the current-slot pointer and MapState unchanged
C29_SwitchResetsNowPlaying ==
    [][ProgramSelected =>
          /\ NowPlayingCleared(streamInfo')
          /\ streamInfo'.Logo = ""
          /\ lastXHDR' = ""
          /\ lastLOT' = ""
          /\ UNCHANGED SwitchFrame]_vars

\* C29, amended: a stream switch resets Title, Artist, Album, Genre, Cover
\* and Bitrate and the XHDR tracking; the Logo is blank afterwards, or, during
\* a session, the cached logo of the slot now tuned; the PortTable, the names,
\* the current-slot pointer and MapState are unchanged
C29_SwitchResetsButCachedLogo ==
    [][ProgramSelected =>
          /\ NowPlayingCleared(streamInfo')
          /\ streamInfo'.Logo \in {"", stationLogos[streamNum']}
          /\ ~playing => streamInfo'.Logo = ""
          /\ lastXHDR' = ""
          /\ lastLOT' = ""
          /\ UNCHANGED SwitchFrame]_vars

\* the programme whose logo is cached was selected during a session, after
\* XHDR and port lines: the logo is on display again
C29_Witness ==
    /\ outcome = "streamChanged"
    /\ playing
    /\ streamInfo.Logo # ""
    /\ streamInfo.Logo = stationLogos[streamNum]
    /\ NowPlayingCleared(streamInfo)
    /\ lastXHDR = ""
    /\ Len(streams[0]) = 2

\* ---- claims on the isolation of the two map subsystems ---------------------------
\* the weather state and the traffic state the claim names
WeatherState == <<weatherID, weatherPos, weatherTime, weatherNow, weatherMaps>>
TrafficState == <<mapTiles, mapComplete>>

\* the step handled a traffic tile (LOT file or HERE Image of type TRAFFIC)
TrafficArrival ==
    outcome' \in {"tileStored", "tileMoveFailed", "tileDuplicate",
                  "tileDuplicateGone", "stitched", "stitchRaised",
                  "hereTileIndexError"}

\* the step handled a weather overlay or weather metadata
WeatherArrival ==
    outcome' \in {"overlayComposited", "overlayBaseFailed",
                  "overlayMoveFailed", "overlayDuplicate",
                  "overlayBeforeMetadata", "overlayWrongId", "hereIdUnbound",
                  "infoChanged", "infoSame", "infoSkipped", "infoMissing",
                  "infoBaseMapRaised"}

\* C30: traffic and weather processing are isolated: a traffic-tile arrival
\* (LOT or HERE Image of type TRAFFIC) leaves weatherID, weatherPos,
\* weatherTime, weatherNow and weatherMaps unchanged, and a weather overlay or
\* weather metadata arrival leaves mapTiles and mapComplete unchanged
C30_MapSubsystemsIsolated ==
    [][/\ WeatherState' # WeatherState => ~TrafficArrival
       /\ TrafficState' # TrafficState => ~WeatherArrival]_vars

\* both subsystems have worked in one session: the traffic map was stitched
\* from tiles that came by HERE Image lines, and a weather overlay was then
\* composited on it
C30_Witness ==
    /\ mapComplete
    /\ trafficMapWrites > 0
    /\ weatherID = "A"
    /\ weatherTime # EmptyTs
    /\ outcome = "overlayComposited"

\* ---- claims on the stitch of the traffic map -------------------------------------
\* C31: whenever the completeness check succeeds and stitching starts, all
\* nine cell files TrafficMap_<x>_<y>.png exist: the files in mapDir together
\* with the file of the tile just moved cover the grid
C31_StitchFilesPresent ==
    [][(mapComplete' /\ mapTiles' # mapTiles) =>
          Cells \subseteq
             (tileFiles \cup {c \in Cells : mapTiles'[c] # mapTiles[c]})]_vars

\* ---- claims on duplicate overlays -------------------------------------------------
\* C32: a weather overlay is treated as a duplicate (deleted without
\* composite) only if a composite for the same location id and the same
\* timestamp was produced before; such a composite is still in mapDir unless
\* a pass has removed it as older than 12 hours
C32_DuplicateOnlyAfterComposite ==
    [][outcome' = "overlayDuplicate" =>
          \/ WxMap(weatherID, weatherTime) \in wxMapFiles
          \/ TooOld(WxMap(weatherID, weatherTime), now)]_vars

\* ---- claims on the data service table ---
\* C33: numServices stays within the 4 entries of Services and SvcTypes, so
\* that no data declaration indexes outside them and parseFeedback does not
\* raise on it
C33_ServicesWithinCapacity ==
    /\ numServices <= NumServices
    /\ ~(raised /\ outcome = "sigIndexError")

\* ---- claims on declarations with a slot number out of range ---
\* C34: while the last declaration read is an audio declaration whose slot
\* number is outside 1..8, a port line appends to no slot, in particular
\* not to the slot of an earlier audio declaration
OutOfRangeAudioDeclared ==
    /\ lastDecl.type = "audio"
    /\ ~(lastDecl.number >= 1 /\ lastDecl.number <= NumSlots)

C34_NoAppendAfterOutOfRange ==
    [][\A line \in DataComponentLines :
         (OutOfRangeAudioDeclared /\ ReadLine(line)) => streams' = streams]_vars

C36_LoopTerminates ==
    /\ (~playing /\ player.loop /\ player.proc = "exited") ~> ~player.loop
    /\ (playing /\ player.loop /\ player.proc = "exited")
          ~> (player.proc = "running" \/ ~playing)

\* C36 for the exit statuses other than 0
C36_NonZeroExitTerminates ==
    /\ (~playing /\ player.loop /\ PollIsTrue(player)) ~> ~player.loop
    /\ (playing /\ player.loop /\ PollIsTrue(player))
          ~> (player.proc = "running" \/ ~playing)

\* ---- claims on the map viewer ---
\* C37: whenever the timer thread starts a pass of animate(), mapIndex is a
\* valid index of the viewer's weatherMaps list or the list is empty
C37_AnimateIndexValid ==
    [][AnimateStart =>
          \/ Len(ViewerMaps) = 0
          \/ ValidIndex(viewer.mapIndex, Len(ViewerMaps))]_vars

\* C38: the list the open viewer animates has the entries of the main
\* window's weatherMaps
C38_ViewerListIsMainList == viewer.open => ViewerMaps = weatherMaps

\* C39: animateBusy is eventually false after every pass of animate(), so
\* that closing the viewer eventually completes, and once the stop flag is
\* set no timer is armed
C39_CloseCompletes ==
    /\ viewer.busy ~> ~viewer.busy
    /\ viewer.closing ~> ~viewer.open
    /\ [][(viewer.stop /\ viewer'.timer = "armed") => viewer.timer = "armed"]_vars

====
